---- MODULE Spec2Model ----
(***************************************************************************)
(* Mission Orchestration Core of Nexus Nebula: the POST                    *)
(* /api/mission/execute route, the swarm engine (executeMission), the      *)
(* trace store, the metrics registry and the active-swarms map.            *)
(*                                                                         *)
(* Units.  Money is counted in micro-dollars, so the per-1000-token rates  *)
(* of MODEL_COSTS become whole micro-dollars per token (0.003 $/1k = 3).   *)
(* Scores (confidence, consensus) are counted in 1/600, so 1.00 = 600,     *)
(* 0.92 = 552, 0.02 = 12 and the mean of up to three scores that are whole *)
(* percents is a whole number.                                             *)
(*                                                                         *)
(* A text (mission, model output) is the record of the facts the code      *)
(* reads from it: its length, its word count, whether it matches a simple  *)
(* task pattern, how many mission indicators it contains and which of the  *)
(* BANNED_PATTERNS match it.                                               *)
(*                                                                         *)
(* One action is one run-to-completion turn of the Node event loop: the    *)
(* code between two awaits executes atomically.  A call of callOpenRouter  *)
(* is issued in one turn and its final outcome (after its own retries)     *)
(* arrives in a later turn.                                                *)
(***************************************************************************)
EXTENDS Integers, Sequences, FiniteSets, TLC

VARIABLES
    pc,              \* per request slot: position of the handler
    req,             \* per slot: the validated request being served
    http,            \* per slot: the HTTP response sent, or NoResponse
    MEMORY_STORE,    \* trace store: trace id -> Trace (in memory)
    disk,            \* trace store: trace id -> Trace written to its JSON file
    shouldUseMemory, \* trace store: sticky memory-only flag
    trace,           \* per mission: the Trace object of executeMission
    swarmStatus,     \* per mission: the SwarmStatus object of executeMission
    activeSwarms,    \* keys of the activeSwarms map
    agentTask,       \* per mission, per agent: sleeping / calling / done
    agentResponses,  \* per mission: results of the agent tasks
    loop,            \* per mission: locals of the critique loop
    metrics,         \* the metrics registry
    upstreamCalls,   \* per mission: number of callOpenRouter calls issued
    synthesisAttempts, \* per mission: outcomes of the calls runSynthesis made
    evictTimer,      \* per mission: the 30 s setTimeout of the success path
    graceElapsed,    \* per mission: 30 s have passed since the terminal status
    world,           \* the request bodies and upstream replies of this run
    cancelledAt,     \* per cancelled mission: upstream calls issued at the signal
    rateLimitStore,  \* rate limiter: key -> count and windowStart
    now,             \* rate limiter: Date.now(), in ms
    passed,          \* rate limiter: per key, the times of the requests let through
    lastResponse,    \* rate limiter: the answer to the last request, and how many came
    responsesIn,     \* posterior weights: the AgentResponse array passed in
    posterior,       \* posterior weights: the weights returned for it
    listeners,       \* event bus: per channel and trace id, the handlers registered
    handlers,        \* event bus: every handler subscribe has created, by number
    received,        \* event bus: per handler, the events its callback was called with
    published,       \* event bus: per channel and trace id, the events emitted
    outbox,          \* per connection: what ws.send was called for
    sockets,         \* per connection: readyState, subscriptions, polling timers
    lookup,          \* trace routes: the last GET and its answer
    client           \* upstream client: one callOpenRouter call and its attempts

vars == <<pc, req, http, MEMORY_STORE, disk, shouldUseMemory, trace, swarmStatus,
          activeSwarms, agentTask, agentResponses, loop, metrics,
          upstreamCalls, synthesisAttempts, evictTimer, graceElapsed, world,
          cancelledAt, rateLimitStore, now, passed, lastResponse,
          responsesIn, posterior, listeners, handlers, received, published,
          outbox, sockets, lookup, client>>

\* the mission engine, its store and its route
engineVars == <<pc, req, http, MEMORY_STORE, disk, shouldUseMemory, trace,
                swarmStatus, activeSwarms, agentTask, agentResponses, loop,
                metrics, upstreamCalls, synthesisAttempts, evictTimer,
                graceElapsed, world>>

limiterVars == <<rateLimitStore, now, passed, lastResponse>>

weightVars == <<responsesIn, posterior>>

\* the listener lists and the logs of the event bus
busVars == <<listeners, received, published, outbox>>

\* the connections, the trace routes and the upstream client
sideVars == <<sockets, lookup, client>>

\* what a step of the mission engine that publishes nothing leaves alone
apart == <<cancelledAt, limiterVars, weightVars, handlers, busVars, sideVars>>

-----------------------------------------------------------------------------
(* Bounds of the model *)

MaxMissions == 2     \* request slots (trace ids)
MaxSwarmSize == 2    \* largest swarmSize a request asks for
\* rate limiter: the clock stops at MaxTime, MaxSent requests come, the
\* window is WindowTicks ms long and lets WindowQuota requests through
MaxTime == 7
MaxSent == 6
WindowTicks == 3
WindowQuota == 2
\* event bus: MaxHandlers subscriptions are made, a handle is called at most
\* MaxHandleCalls times, a publisher of its own emits MaxPublished events
MaxHandlers == 2
MaxHandleCalls == 2
MaxPublished == 3
\* WebSocket connections, and the messages each of them sends
MaxConnections == 1
MaxMessages == 3
MaxLookups == 2

Slots == 1..MaxMissions

-----------------------------------------------------------------------------
(* Program constants *)

maxAgents == 20
MAX_CRITIQUE_ITERATIONS == 5
CONSENSUS_THRESHOLD == 552          \* 0.92
MIN_CONSENSUS_IMPROVEMENT == 12     \* 0.02
GUARDIAN_PATIENCE == 2
expectedOutputTokens == 500
synthesisOutputTokens == 1000
systemPromptLength == 126
MaxMissionLength == 10000
MinBudget == 10000                  \* 0.01 $
MaxBudget == 5000000                \* 5.0 $
DefaultBudget == 1250000            \* 1.25 $

\* MODEL_COSTS, micro-dollars per token
MODEL_COSTS(model) ==
    CASE model = "free"      -> [input |-> 0, output |-> 0]
      [] model = "synthesis" -> [input |-> 3, output |-> 15]
      [] model = "fallback"  -> [input |-> 5, output |-> 15]

\* BANNED_PATTERNS, in table order
BANNED_PATTERNS ==
    << [category |-> "violence",     severity |-> "HIGH"],
       [category |-> "violence",     severity |-> "CRITICAL"],
       [category |-> "illegal",      severity |-> "HIGH"],
       [category |-> "illegal",      severity |-> "HIGH"],
       [category |-> "pii",          severity |-> "MEDIUM"],
       [category |-> "manipulation", severity |-> "MEDIUM"],
       [category |-> "harm",         severity |-> "CRITICAL"],
       [category |-> "csam",         severity |-> "CRITICAL"] >>

-----------------------------------------------------------------------------
(* Pure functions *)

Min(a, b) == IF a <= b THEN a ELSE b
Max(a, b) == IF a >= b THEN a ELSE b

\* Math.ceil(a / b) for a >= 0, b > 0
CeilDiv(a, b) == (a + b - 1) \div b

estimateTokens(chars) == CeilDiv(chars, 4)

\* the budget compared with the swarm's share of the estimate only
estimateCostSwarmOnly(mission, swarmSize, maxBudget) ==
    LET inputTokens == estimateTokens(systemPromptLength + mission.chars)
        swarmCost == swarmSize * (inputTokens * MODEL_COSTS("free").input
                                  + expectedOutputTokens * MODEL_COSTS("free").output)
        synthesisCost == (inputTokens + swarmSize * expectedOutputTokens)
                             * MODEL_COSTS("synthesis").input
                         + synthesisOutputTokens * MODEL_COSTS("synthesis").output
    IN  [inputTokens |-> inputTokens,
         swarmCost |-> swarmCost,
         synthesisCost |-> synthesisCost,
         totalCost |-> swarmCost + synthesisCost,
         withinBudget |-> swarmCost <= maxBudget]

estimateCost(mission, swarmSize, maxBudget) ==
    LET inputTokens == estimateTokens(systemPromptLength + mission.chars)
        swarmModelCost == MODEL_COSTS("free")
        synthesisModelCost == MODEL_COSTS("synthesis")
        swarmCost == swarmSize * (inputTokens * swarmModelCost.input
                                  + expectedOutputTokens * swarmModelCost.output)
        synthesisInputTokens == inputTokens + swarmSize * expectedOutputTokens
        synthesisCost == synthesisInputTokens * synthesisModelCost.input
                         + synthesisOutputTokens * synthesisModelCost.output
        totalCost == swarmCost + synthesisCost
    IN  [inputTokens |-> inputTokens,
         swarmCost |-> swarmCost,
         synthesisCost |-> synthesisCost,
         totalCost |-> totalCost,
         withinBudget |-> totalCost <= maxBudget]

RECURSIVE scanFrom(_, _, _)
scanFrom(i, hits, source) ==
    IF i > Len(BANNED_PATTERNS) THEN << >>
    ELSE (IF i \in hits
          THEN << [severity |-> BANNED_PATTERNS[i].severity,
                   category |-> BANNED_PATTERNS[i].category,
                   source |-> source] >>
          ELSE << >>) \o scanFrom(i + 1, hits, source)

\* one flag per pattern that matches, in table order
scanContent(text, source) == scanFrom(1, text.hits, source)

severityIndex(s) ==
    CASE s = "LOW" -> 0 [] s = "MEDIUM" -> 1 [] s = "HIGH" -> 2 [] s = "CRITICAL" -> 3

severityOrder == << "LOW", "MEDIUM", "HIGH", "CRITICAL" >>

RECURSIVE highestFrom(_, _, _)
highestFrom(flags, k, highest) ==
    IF k > Len(flags) THEN highest
    ELSE highestFrom(flags, k + 1,
                     IF severityIndex(flags[k].severity) > highest
                     THEN severityIndex(flags[k].severity) ELSE highest)

getHighestSeverity(flags) ==
    IF Len(flags) = 0 THEN "none"
    ELSE severityOrder[highestFrom(flags, 1, 0) + 1]

\* only CRITICAL blocks
shouldBlockCriticalOnly(flags) == getHighestSeverity(flags) = "CRITICAL"

shouldBlockExecution(flags) ==
    LET highest == getHighestSeverity(flags)
    IN  highest = "CRITICAL" \/ highest = "HIGH"

classifyInput(input) ==
    IF input.simpleTask
    THEN [tier |-> "task", confidence |-> 95, localHandler |-> TRUE]
    ELSE IF input.words < 5 /\ input.chars < 40
    THEN [tier |-> "task", confidence |-> 70, localHandler |-> FALSE]
    ELSE IF input.indicators >= 2
    THEN [tier |-> "mission", confidence |-> 90, localHandler |-> FALSE]
    ELSE IF input.indicators = 1 /\ input.words >= 15
    THEN [tier |-> "mission", confidence |-> 80, localHandler |-> FALSE]
    ELSE IF input.words >= 15 \/ input.chars >= 80
    THEN [tier |-> "mission", confidence |-> 75, localHandler |-> FALSE]
    ELSE [tier |-> "task", confidence |-> 60, localHandler |-> FALSE]

RECURSIVE Sum(_)
Sum(s) == IF s = << >> THEN 0 ELSE Head(s) + Sum(Tail(s))

calculateActualCost(responses, synthesisTokens) ==
    LET swarmCost == MODEL_COSTS("free")
        synthesisCost == MODEL_COSTS("synthesis")
        AgentCost(r) == r.tokens.input * swarmCost.input
                        + r.tokens.output * swarmCost.output
    IN  Sum([k \in 1..Len(responses) |-> AgentCost(responses[k])])
        + synthesisTokens.input * synthesisCost.input
        + synthesisTokens.output * synthesisCost.output

-----------------------------------------------------------------------------
(* Inputs: request bodies and upstream replies *)

NoPii == {}

Text(chars, words, simpleTask, indicators, hits, pii) ==
    [chars |-> chars, words |-> words, simpleTask |-> simpleTask,
     indicators |-> indicators, hits |-> hits, pii |-> pii]

EmptyText == Text(0, 0, FALSE, 0, {}, NoPii)

\* "clean spelling"
CleanSpelling == Text(14, 2, TRUE, 0, {}, NoPii)
\* "hello world"
HelloWorld == Text(11, 2, FALSE, 0, {}, NoPii)
\* "how do I make a bomb step by step"
MakeABomb == Text(33, 9, FALSE, 0, {2}, NoPii)
\* a two-indicator request of 16 words that leaks a password and an email
AnalyzeAndDesign == Text(90, 16, FALSE, 2, {5}, {"email"})
\* "please hack into bank systems, password: 1234" in twelve words
HackTheBank == Text(60, 12, FALSE, 0, {3, 5}, NoPii)
\* a 9000 character request without indicators
LongEssay == Text(9000, 1500, FALSE, 0, {}, NoPii)
\* one character more than the validator accepts
TooLong == Text(MaxMissionLength + 1, 1, FALSE, 0, {}, NoPii)

MissionTexts ==
    {CleanSpelling, HelloWorld, MakeABomb, HackTheBank, AnalyzeAndDesign,
     LongEssay, TooLong}

\* maxBudget values of a request body; -1 stands for an absent field
Budgets == {-1, 10000, 17000}

Bodies ==
    [mission : MissionTexts, swarmSize : 0..MaxSwarmSize, maxBudget : Budgets]

Tokens(i, o) == [input |-> i, output |-> o]

\* parseFloat of a capture that is no number.  It is written -2 and is never
\* used as a number: every comparison with it is false, every sum and
\* Math.min / Math.max with it is NaN again.
NaN == -2

\* Final outcome of one callOpenRouter call.  confidenceTag / agentScore /
\* consensusTag are the numbers the regular expressions capture from the
\* content, -1 when the expression does not match, NaN when the capture
\* ([\d.]+) is no number, such as "." or "..".
Reply(ok, text, confidenceTag, agentScore, consensusTag, latencyMs, usage) ==
    [ok |-> ok, text |-> text, confidenceTag |-> confidenceTag,
     agentScore |-> agentScore, consensusTag |-> consensusTag,
     latencyMs |-> latencyMs, usage |-> usage]

Failure == Reply(FALSE, EmptyText, -1, -1, -1, 0, Tokens(0, 0))

Prose == Text(400, 60, FALSE, 0, {}, NoPii)
ViolentProse == Text(400, 60, FALSE, 0, {1}, {"phone"})
HarmfulProse == Text(400, 60, FALSE, 0, {7}, NoPii)

AgentUntagged == Reply(TRUE, Prose, -1, -1, -1, 2000, Tokens(40, 300))
AgentOverconfident == Reply(TRUE, ViolentProse, 900, -1, -1, 0, Tokens(40, 600))

ReviewStall == Reply(TRUE, Prose, -1, -1, 300, 0, Tokens(500, 800))
ReviewConverged == Reply(TRUE, Prose, -1, 570, 570, 0, Tokens(500, 800))
ReviewGarbage == Reply(TRUE, Prose, -1, 0, -1, 0, Tokens(0, 0))
\* "[CONSENSUS]: ... | no agreement"
ReviewDots == Reply(TRUE, Prose, -1, -1, NaN, 0, Tokens(500, 800))

SynthesisOk == Reply(TRUE, Prose, -1, -1, -1, 0, Tokens(600, 1500))
SynthesisHarmful == Reply(TRUE, HarmfulProse, -1, -1, -1, 0, Tokens(0, 0))

\* outcome of the file system calls of one saveTrace
FsOutcomes == {"ok", "mkdirFails", "writeFails"}

\* a single client, every reply
RichWorld ==
    [bodies |-> {b \in Bodies :
                    /\ b.mission = HelloWorld => b.maxBudget = -1 /\ b.swarmSize <= 1
                    /\ b.mission = LongEssay => b.maxBudget = 17000 /\ b.swarmSize = 1
                    /\ b.mission = TooLong => b.maxBudget = -1 /\ b.swarmSize = 1
                    /\ b.mission = HackTheBank => b.maxBudget = -1 /\ b.swarmSize = 1
                    /\ b.mission = CleanSpelling => b.maxBudget = -1 /\ b.swarmSize = 1},
     agent |-> {Failure, AgentUntagged, AgentOverconfident},
     reviewer |-> {Failure, ReviewStall, ReviewConverged, ReviewGarbage,
                   ReviewDots},
     synthesis |-> {Failure, SynthesisOk, SynthesisHarmful},
     fs |-> FsOutcomes]

\* one clean mission, any reviewer
LoopWorld ==
    [bodies |-> {b \in Bodies : /\ b.mission = HelloWorld
                                /\ b.swarmSize >= 1
                                /\ b.maxBudget = -1},
     agent |-> {Failure, AgentUntagged},
     reviewer |-> {Failure, ReviewStall, ReviewConverged, ReviewGarbage,
                   ReviewDots},
     synthesis |-> {Failure, SynthesisOk},
     fs |-> {"ok"}]

\* the swarm size of a request that names none
defaultSwarmSize == 8

\* one clean mission for a swarm of the default size
DefaultWorld ==
    [bodies |-> {[mission |-> AnalyzeAndDesign, swarmSize |-> defaultSwarmSize,
                  maxBudget |-> -1]},
     agent |-> {AgentUntagged},
     reviewer |-> {ReviewStall, ReviewConverged},
     synthesis |-> {Failure, SynthesisOk},
     fs |-> {"ok"}]

\* concurrent clients
PlainWorld ==
    [bodies |-> {b \in Bodies :
                    /\ b.mission \in {MakeABomb, HackTheBank, AnalyzeAndDesign}
                    /\ b.swarmSize = 2
                    /\ b.maxBudget \in {10000, -1}
                    /\ b.mission # AnalyzeAndDesign => b.maxBudget = -1},
     agent |-> {Failure, AgentUntagged},
     reviewer |-> {ReviewConverged},
     synthesis |-> {Failure, SynthesisOk},
     fs |-> {"ok"}]

-----------------------------------------------------------------------------
(* Maps *)

EmptyMap == [k \in {} |-> 0]

Put(map, k, v) == [x \in (DOMAIN map) \cup {k} |-> IF x = k THEN v ELSE map[x]]

Remove(map, k) == [x \in (DOMAIN map) \ {k} |-> map[x]]

-----------------------------------------------------------------------------
(* Trace store *)

sanitizeForTrace(content) == [content EXCEPT !.pii = {}]

\* the object getTrace returns: the engine's own object while the store holds
\* a reference to it, otherwise the stored shallow copy, whose arrays are
\* still the engine's arrays
getTrace(traceId) ==
    LET entry == MEMORY_STORE[traceId]
    IN  IF entry.ref THEN trace[traceId]
        ELSE [entry.own EXCEPT !.iterations = trace[traceId].iterations,
                               !.redTeamFlags = trace[traceId].redTeamFlags]

\* the memory entry is set only when the file was written
saveTraceDiskFirst(store, traceId, entry, json, fs) ==
    [memory |-> IF ~store.shouldUseMemory /\ fs = "ok"
                THEN Put(store.memory, traceId, entry) ELSE store.memory,
     disk |-> IF ~store.shouldUseMemory /\ fs = "ok"
              THEN Put(store.disk, traceId, json) ELSE store.disk,
     shouldUseMemory |-> store.shouldUseMemory \/ fs # "ok"]

\* saveTrace: the memory entry is always set; the file is written unless the
\* store is in memory-only mode, and a failing mkdir or write makes the
\* mode sticky.  entry is what MEMORY_STORE then holds, json the file content.
saveTrace(store, traceId, entry, json, fs) ==
    [memory |-> Put(store.memory, traceId, entry),
     disk |-> IF ~store.shouldUseMemory /\ fs = "ok"
              THEN Put(store.disk, traceId, json) ELSE store.disk,
     shouldUseMemory |-> store.shouldUseMemory \/ fs # "ok"]

Store == [memory |-> MEMORY_STORE, disk |-> disk, shouldUseMemory |-> shouldUseMemory]

SetStore(store) ==
    /\ MEMORY_STORE' = store.memory
    /\ disk' = store.disk
    /\ shouldUseMemory' = store.shouldUseMemory

\* executeMission saves its own Trace object: the store keeps the reference
saveOwnTrace(t, fs) ==
    SetStore(saveTrace(Store, t.traceId, [ref |-> TRUE, own |-> t], t, fs))

-----------------------------------------------------------------------------
(* Active swarms *)

getSwarmStatus(traceId) ==
    IF traceId \in activeSwarms THEN {swarmStatus[traceId]} ELSE {}

-----------------------------------------------------------------------------
(* Posterior weights, in exact fractions *)

RECURSIVE GCD(_, _)
GCD(a, b) == IF b = 0 THEN a ELSE GCD(b, a % b)

\* the fraction n / d in lowest terms, d > 0
Frac(n, d) ==
    LET g == GCD(IF n < 0 THEN -n ELSE n, d)
    IN  [n |-> n \div g, d |-> d \div g]

FAdd(x, y) == Frac(x.n * y.d + y.n * x.d, x.d * y.d)

FMul(x, y) == Frac(x.n * y.n, x.d * y.d)

FDiv(x, y) == Frac(x.n * y.d, x.d * y.n)

RECURSIVE FSum(_)
FSum(s) == IF Len(s) = 0 THEN Frac(0, 1) ELSE FAdd(s[1], FSum(Tail(s)))

\* a confidence of the model (in 1/600) as a fraction
Confidence(r) == Frac(r.confidence, 600)

\* the weights before the second pass
baseWeights(validResponses) ==
    LET totalConfidence ==
            FSum([k \in 1..Len(validResponses) |-> Confidence(validResponses[k])])
        weigh(r) ==
            LET baseWeight == FDiv(Confidence(r), totalConfidence)
                latencyFactor == FDiv(Frac(1, 1),
                                      FAdd(Frac(1, 1), Frac(r.latencyMs, 10000)))
            IN  FMul(baseWeight,
                     FAdd(Frac(8, 10), FMul(Frac(2, 10), latencyFactor)))
        ids == {validResponses[k].agentId : k \in 1..Len(validResponses)}
        \* weights[agentId] = ...: a later response of the same id overwrites
        last(id) == CHOOSE k \in 1..Len(validResponses) :
                        /\ validResponses[k].agentId = id
                        /\ \A j \in (k + 1)..Len(validResponses) :
                              validResponses[j].agentId # id
    IN  [id \in ids |-> weigh(validResponses[last(id)])]

\* Object.values(weights), in insertion order of the keys
valuesOf(weights, validResponses) ==
    LET firsts == SelectSeq([k \in 1..Len(validResponses) |-> k],
                            LAMBDA k : \A j \in 1..(k - 1) :
                                validResponses[j].agentId # validResponses[k].agentId)
    IN  [k \in 1..Len(firsts) |-> weights[validResponses[firsts[k]].agentId]]

\* the first pass alone
calculatePosteriorWeightsUnnormalised(responses) ==
    LET validResponses ==
            SelectSeq(responses, LAMBDA r : r.error = "none" /\ r.confidence > 0)
    IN  IF Len(validResponses) = 0 THEN EmptyMap
        ELSE baseWeights(validResponses)

calculatePosteriorWeights(responses) ==
    LET validResponses ==
            SelectSeq(responses, LAMBDA r : r.error = "none" /\ r.confidence > 0)
    IN  IF Len(validResponses) = 0 THEN EmptyMap
        ELSE LET weights == baseWeights(validResponses)
                 totalWeight == FSum(valuesOf(weights, validResponses))
             IN  [id \in DOMAIN weights |-> FDiv(weights[id], totalWeight)]

\* the AgentResponse objects the function is tried on
WeighedResponses ==
    {r \in [agentId : 1..MaxSwarmSize, confidence : {0, 200, 600},
            latencyMs : {0, 2000}, error : {"none", "upstream call failed"}] :
        r.error # "none" => r.latencyMs = 0}

\* arrays of one response per agent
WeighedArrays ==
    UNION {{s \in [1..n -> WeighedResponses] : \A k \in 1..n : s[k].agentId = k} :
              n \in 1..MaxSwarmSize}

-----------------------------------------------------------------------------
(* Rate limiter: checkRateLimit *)

\* a RateLimitConfig with a short window, so that the clock of the model
\* passes several windows
TestConfig == [windowMs |-> WindowTicks, maxRequests |-> WindowQuota]

\* `${clientIP}:${req.path}`
Keys == {"1.1.1.1:/api/mission/execute", "2.2.2.2:/api/mission/execute"}

\* checkRateLimit: the store afterwards and the verdict.  The cleanup timer
\* of the module deletes only records older than 300000 ms, which every
\* request already treats as expired; it is left out.
checkRateLimit(store, key, config, t) ==
    IF key \notin DOMAIN store \/ t - store[key].windowStart >= config.windowMs
    THEN [store |-> Put(store, key, [count |-> 1, windowStart |-> t]),
          allowed |-> TRUE,
          remaining |-> config.maxRequests - 1,
          resetIn |-> config.windowMs]
    ELSE LET resetIn == config.windowMs - (t - store[key].windowStart)
         IN  IF store[key].count >= config.maxRequests
             THEN [store |-> store, allowed |-> FALSE, remaining |-> 0,
                   resetIn |-> resetIn]
             ELSE [store |-> [store EXCEPT ![key].count = @ + 1],
                   allowed |-> TRUE,
                   remaining |-> config.maxRequests - (store[key].count + 1),
                   resetIn |-> resetIn]

-----------------------------------------------------------------------------
(* WebSocket connections *)

Conns == 1..MaxConnections

\* a connection before it is made.  tracked: clientSubscriptions has an entry
\* for the socket; subscriptions: the handlers whose unsubscribe functions the
\* entry holds; intervals: the polling timers set for it; messages: how many
\* messages it has received.
NoSocket == [readyState |-> "none", tracked |-> FALSE, subscriptions |-> << >>,
             intervals |-> << >>, messages |-> 0]

\* ws.send was called: sent, on the open socket; dropped, while the socket was
\* closing; sendAfterClose, after its close event
EmptyOutbox == [sent |-> FALSE, dropped |-> FALSE, sendAfterClose |-> FALSE]

\* ws.send(data)
wsSend(box, readyState) ==
    IF readyState = "CLOSED" THEN [box EXCEPT !.sendAfterClose = TRUE]
    ELSE IF readyState = "CLOSING" THEN [box EXCEPT !.dropped = TRUE]
    ELSE [box EXCEPT !.sent = TRUE]

-----------------------------------------------------------------------------
(* Event bus: SwarmEventEmitter *)

Channels == {"swarm", "thought"}

\* what a subscriber's callback does when it is called
Callbacks == {"returns", "throws"}

\* the callbacks of the WebSocket handler send on their socket when it is open
SocketCallback == "socket"

SwarmEvent(traceId, type, iteration) ==
    [traceId |-> traceId, type |-> type, iteration |-> iteration,
     guardianFail |-> FALSE]

\* consensus_update with guardianFail: true in its data
GuardianFail(traceId, iteration) ==
    [traceId |-> traceId, type |-> "consensus_update", iteration |-> iteration,
     guardianFail |-> TRUE]

\* the reviewer's critique of a round, streamed as a thought
AgentThought(traceId, iteration) ==
    [traceId |-> traceId, type |-> "critique", iteration |-> iteration,
     guardianFail |-> FALSE]

Bus ==
    [listeners |-> listeners, received |-> received, published |-> published,
     outbox |-> outbox]

SetBus(b) ==
    /\ listeners' = b.listeners
    /\ received' = b.received
    /\ published' = b.published
    /\ outbox' = b.outbox

\* EventEmitter.emit on the event name of a channel and a trace id: the
\* listeners are called in the order of their registration, in the caller's
\* own turn; a listener that throws ends the call, and the exception goes to
\* the caller.  Nothing in the repository listens to the bare names "swarm"
\* and "thought", which are emitted next.
emit(b, channel, event) ==
    LET ls == b.listeners[channel][event.traceId]
        throwers == {k \in 1..Len(ls) : handlers[ls[k]].callback = "throws"}
        last == IF throwers = {} THEN Len(ls)
                ELSE CHOOSE k \in throwers : \A j \in throwers : k <= j
        called == {ls[k] : k \in 1..last}
        senders == {h \in called : /\ handlers[h].callback = SocketCallback
                                    /\ sockets[handlers[h].conn].readyState = "OPEN"}
    IN  [bus |-> [b EXCEPT
                    !.received = [h \in DOMAIN b.received |->
                                    IF h \in called THEN Append(b.received[h], event)
                                    ELSE b.received[h]],
                    !.outbox = [c \in DOMAIN b.outbox |->
                                  IF \E h \in senders : handlers[h].conn = c
                                  THEN wsSend(b.outbox[c], "OPEN")
                                  ELSE b.outbox[c]],
                    !.published[channel][event.traceId] = Append(@, event)],
         threw |-> throwers # {}]

emitThought(b, thought) == emit(b, "thought", thought)

emitSwarmEvent(b, event) == emit(b, "swarm", event)

\* this.on(name, handler)
on(b, channel, traceId, h) ==
    [b EXCEPT !.listeners[channel][traceId] = Append(@, h)]

\* this.off(name, handler)
off(b, channel, traceId, h) ==
    [b EXCEPT !.listeners[channel][traceId] = SelectSeq(@, LAMBDA x : x # h)]

-----------------------------------------------------------------------------
(* Trace routes and upstream client, before any request *)

NoParam == [groups |-> << >>, hex |-> FALSE, id |-> 0]

NoLookup == [route |-> "none", param |-> NoParam, status |-> 0, consulted |-> {},
             served |-> 0]

NoCall == [state |-> "idle", retryCount |-> 0, attempts |-> << >>,
           waits |-> << >>, error |-> "none"]

-----------------------------------------------------------------------------
(* Initial states *)

NoLoop ==
    [critiqueIteration |-> 0, consensusScore |-> 0, previousConsensusScore |-> 0,
     stagnantIterations |-> 0, totalCritiqueTokens |-> Tokens(0, 0),
     currentResponses |-> << >>, guardianTriggered |-> FALSE]

\* everything but the requests to come and the array to weigh
InitIdle ==
    /\ req = EmptyMap
    /\ http = EmptyMap
    /\ MEMORY_STORE = EmptyMap
    /\ disk = EmptyMap
    /\ shouldUseMemory = FALSE
    /\ trace = EmptyMap
    /\ swarmStatus = EmptyMap
    /\ activeSwarms = {}
    /\ agentTask = [m \in Slots |-> << >>]
    /\ agentResponses = [m \in Slots |-> << >>]
    /\ loop = [m \in Slots |-> NoLoop]
    /\ metrics = [missionsTotal |-> 0, missionsSuccess |-> 0, missionsFailed |-> 0,
                  swarmAgentsActive |-> 0, costTotal |-> 0, redTeamFlagsTotal |-> 0]
    /\ upstreamCalls = [m \in Slots |-> 0]
    /\ synthesisAttempts = [m \in Slots |-> << >>]
    /\ evictTimer = [m \in Slots |-> "none"]
    /\ graceElapsed = [m \in Slots |-> FALSE]
    /\ cancelledAt = EmptyMap
    /\ posterior = [computed |-> FALSE, weights |-> EmptyMap]
    /\ rateLimitStore = EmptyMap
    /\ now = 0
    /\ passed = [key \in Keys |-> << >>]
    /\ lastResponse = [key |-> "none", status |-> 0, retryAfter |-> 0,
                       remaining |-> 0, sent |-> 0]
    /\ listeners = [c \in Channels |-> [id \in Slots |-> << >>]]
    /\ handlers = << >>
    /\ received = << >>
    /\ published = [c \in Channels |-> [id \in Slots |-> << >>]]
    /\ outbox = [c \in Conns |-> EmptyOutbox]
    /\ sockets = [c \in Conns |-> NoSocket]
    /\ lookup = NoLookup
    /\ client = NoCall

InitCommon ==
    /\ InitIdle
    /\ responsesIn = << >>

\* one request, any body, any upstream reply
Init ==
    /\ InitCommon
    /\ pc = [m \in Slots |-> IF m = 1 THEN "idle" ELSE "off"]
    /\ world = RichWorld

\* one request of the plain world
InitStore ==
    /\ InitCommon
    /\ pc = [m \in Slots |-> IF m = 1 THEN "idle" ELSE "off"]
    /\ world = PlainWorld

\* MaxMissions concurrent requests
InitConcurrent ==
    /\ InitCommon
    /\ pc = [m \in Slots |-> "idle"]
    /\ world = PlainWorld

-----------------------------------------------------------------------------
(* executeMission, up to its first await *)

Response(status, tier, traceId, cost) ==
    [status |-> status, tier |-> tier, traceId |-> traceId, cost |-> cost]

NewTrace(traceId, mission, flags, costEstimate, status, error) ==
    [traceId |-> traceId, mission |-> sanitizeForTrace(mission),
     iterations |-> << >>, redTeamFlags |-> flags,
     synthesisResult |-> EmptyText, costEstimate |-> costEstimate,
     actualCost |-> 0, status |-> status, error |-> error]

NewSwarmStatus(traceId, agentCount) ==
    [traceId |-> traceId, status |-> "running",
     agents |-> [i \in 1..agentCount |->
                    [status |-> "running", confidence |-> -1, latencyMs |-> -1]],
     currentIteration |-> 1, progress |-> 0]

\* safety block: failed Trace saved, missions_failed, throw
MissionBlocked(m, mission, inputFlags, fs) ==
    LET t == NewTrace(m, mission, inputFlags, 0, "failed",
                      "Mission blocked by safety system")
    IN  /\ trace' = Put(trace, m, t)
        /\ saveOwnTrace(t, fs)
        /\ metrics' = [metrics EXCEPT
                         !.missionsTotal = @ + 1,
                         !.redTeamFlagsTotal = @ + Len(inputFlags),
                         !.missionsFailed = @ + 1]
        /\ http' = Put(http, m, Response(403, "none", m, 0))
        /\ pc' = [pc EXCEPT ![m] = "done"]
        /\ UNCHANGED <<swarmStatus, activeSwarms, agentTask, agentResponses,
                       loop, upstreamCalls, synthesisAttempts, evictTimer,
                       graceElapsed>>

\* budget guard: throw before anything is created
BudgetExceeded(m, inputFlags) ==
    /\ metrics' = [metrics EXCEPT
                     !.missionsTotal = @ + 1,
                     !.redTeamFlagsTotal = @ + Len(inputFlags)]
    /\ http' = Put(http, m, Response(402, "none", m, 0))
    /\ pc' = [pc EXCEPT ![m] = "done"]
    /\ UNCHANGED <<MEMORY_STORE, disk, shouldUseMemory, trace, swarmStatus,
                   activeSwarms, agentTask, agentResponses, loop,
                   upstreamCalls, synthesisAttempts, evictTimer, graceElapsed>>

\* running Trace saved, SwarmStatus registered, every agent task started:
\* agent-1 issues its upstream call at once, agent-i sleeps i * throttleMs
SwarmLaunched(m, mission, agentCount, inputFlags, costEstimate, fs) ==
    LET t == NewTrace(m, mission, inputFlags, costEstimate.totalCost,
                      "running", "none")
    IN  /\ trace' = Put(trace, m, t)
        /\ saveOwnTrace(t, fs)
        /\ swarmStatus' = Put(swarmStatus, m, NewSwarmStatus(m, agentCount))
        /\ activeSwarms' = activeSwarms \cup {m}
        /\ metrics' = [metrics EXCEPT
                         !.missionsTotal = @ + 1,
                         !.redTeamFlagsTotal = @ + Len(inputFlags),
                         !.swarmAgentsActive = Cardinality(activeSwarms \cup {m})]
        /\ agentTask' = [agentTask EXCEPT ![m] =
                            [i \in 1..agentCount |->
                                IF i = 1 THEN "calling" ELSE "sleeping"]]
        /\ agentResponses' = [agentResponses EXCEPT ![m] = << >>]
        /\ upstreamCalls' = [upstreamCalls EXCEPT ![m] = @ + 1]
        /\ pc' = [pc EXCEPT ![m] = "fanout"]
        /\ UNCHANGED <<http, loop, synthesisAttempts, evictTimer, graceElapsed>>

executeMission(m, mission, swarmSize, maxBudget, fs) ==
    LET agentCount == Min(Max(swarmSize, 1), maxAgents)
        inputFlags == scanContent(mission, "input")
        costEstimate == estimateCost(mission, agentCount, maxBudget)
    IN  IF shouldBlockExecution(inputFlags)
        THEN MissionBlocked(m, mission, inputFlags, fs)
        ELSE IF ~costEstimate.withinBudget
        THEN BudgetExceeded(m, inputFlags)
        ELSE SwarmLaunched(m, mission, agentCount, inputFlags, costEstimate, fs)

-----------------------------------------------------------------------------
(* POST /api/mission/execute *)

MissionRequestSchema(body) ==
    /\ body.mission.chars >= 1
    /\ body.mission.chars <= MaxMissionLength
    /\ body.swarmSize >= 1
    /\ body.swarmSize <= maxAgents
    /\ body.maxBudget # -1 => (body.maxBudget >= MinBudget /\ body.maxBudget <= MaxBudget)

Request(body, classification, engine) ==
    [mission |-> body.mission, swarmSize |-> body.swarmSize,
     maxBudget |-> IF body.maxBudget = -1 THEN DefaultBudget ELSE body.maxBudget,
     classification |-> classification, engine |-> engine]

UnchangedEngine ==
    UNCHANGED <<MEMORY_STORE, disk, shouldUseMemory, trace, swarmStatus,
                activeSwarms, agentTask, agentResponses, loop, metrics,
                upstreamCalls, synthesisAttempts, evictTimer, graceElapsed>>

PostMissionExecute(m, body, fs) ==
    /\ pc[m] = "idle"
    /\ body \in world.bodies
    /\ LET classification == classifyInput(body.mission)
           local == classification.tier = "task" /\ classification.localHandler
           data == Request(body, classification, ~local)
       IN  IF ~MissionRequestSchema(body)
           THEN /\ http' = Put(http, m, Response(400, "none", 0, 0))
                /\ pc' = [pc EXCEPT ![m] = "done"]
                /\ req' = req
                /\ UnchangedEngine
           ELSE IF local
           THEN /\ http' = Put(http, m, Response(200, "task", 0, 0))
                /\ pc' = [pc EXCEPT ![m] = "done"]
                /\ req' = Put(req, m, data)
                /\ UnchangedEngine
           ELSE /\ req' = Put(req, m, data)
                /\ executeMission(m, data.mission, data.swarmSize, data.maxBudget, fs)
    /\ UNCHANGED <<world, apart>>

-----------------------------------------------------------------------------
(* Fan-out *)

Clamp01(x) == IF x = NaN THEN NaN ELSE Min(600, Max(0, x))

\* a failed call keeps the default confidence
runSwarmAgentDefaultConfidence(agentId, reply) ==
    [agentId |-> agentId,
     response |-> IF reply.ok THEN reply.text ELSE EmptyText,
     confidence |-> Clamp01(IF reply.confidenceTag # -1
                            THEN reply.confidenceTag ELSE 300),
     latencyMs |-> reply.latencyMs,
     tokens |-> IF reply.ok THEN reply.usage ELSE Tokens(0, 0),
     error |-> IF reply.ok THEN "none" ELSE "upstream call failed"]

\* runSwarmAgent: the AgentResponse made of the outcome of the upstream call
runSwarmAgent(agentId, reply) ==
    IF reply.ok
    THEN [agentId |-> agentId, response |-> reply.text,
          confidence |-> Clamp01(IF reply.confidenceTag # -1
                                 THEN reply.confidenceTag ELSE 300),
          latencyMs |-> reply.latencyMs, tokens |-> reply.usage,
          error |-> "none"]
    ELSE [agentId |-> agentId, response |-> EmptyText, confidence |-> 0,
          latencyMs |-> reply.latencyMs, tokens |-> Tokens(0, 0),
          error |-> "upstream call failed"]

RECURSIVE Flatten(_)
Flatten(ss) == IF ss = << >> THEN << >> ELSE Head(ss) \o Flatten(Tail(ss))

\* flags of every non-empty response, in response order
scanOutputs(responses) ==
    Flatten([k \in 1..Len(responses) |->
                IF responses[k].response.chars > 0
                THEN scanContent(responses[k].response, "output")
                ELSE << >>])

Finished(agents) ==
    {i \in DOMAIN agents : agents[i].status \in {"completed", "failed"}}

\* a sleeping agent task wakes up and issues its upstream call
AgentWakes(m, i) ==
    /\ pc[m] = "fanout"
    /\ i \in DOMAIN agentTask[m]
    /\ agentTask[m][i] = "sleeping"
    /\ agentTask' = [agentTask EXCEPT ![m][i] = "calling"]
    /\ upstreamCalls' = [upstreamCalls EXCEPT ![m] = @ + 1]
    /\ UNCHANGED <<pc, req, http, MEMORY_STORE, disk, shouldUseMemory, trace,
                   swarmStatus, activeSwarms, agentResponses, loop, metrics,
                   synthesisAttempts, evictTimer, graceElapsed, world, apart>>

\* a loop head that looks at the number of rounds only
CritiqueGoesOnBelowBound(l) ==
    /\ l.consensusScore # NaN
    /\ l.critiqueIteration < MAX_CRITIQUE_ITERATIONS

\* the loop head of the critique loop: another round or synthesis
CritiqueGoesOn(l) ==
    /\ l.consensusScore # NaN
    /\ l.consensusScore < CONSENSUS_THRESHOLD
    /\ l.critiqueIteration < MAX_CRITIQUE_ITERATIONS

\* only the first agent task is awaited
firstSettled(results, agentCount) == 1 \in DOMAIN results

\* Promise.all(agentPromises) resolves once every agent task has returned
allSettled(results, agentCount) == DOMAIN results = 1..agentCount

\* the catch block of executeMission, entered with the Trace, the SwarmStatus
\* and the counters as the body has left them
catchBlock(m, t, status, counters, error, fs) ==
    LET failed == [t EXCEPT !.status = "failed", !.error = error]
    IN  /\ trace' = [trace EXCEPT ![m] = failed]
        /\ saveOwnTrace(failed, fs)
        /\ swarmStatus' = [swarmStatus EXCEPT
                             ![m] = [status EXCEPT !.status = "failed"]]
        /\ activeSwarms' = activeSwarms \ {m}
        /\ metrics' = [counters EXCEPT
                         !.missionsFailed = @ + 1,
                         !.swarmAgentsActive = Cardinality(activeSwarms \ {m})]
        /\ http' = Put(http, m, Response(500, "none", m, 0))
        /\ pc' = [pc EXCEPT ![m] = "done"]

\* an agent's upstream call ends; when it is the last one, Promise.all
\* resolves and executeMission runs on to the first reviewer call, publishing
\* consensus_update and critique_start on its way; an exception of a
\* subscriber leaves the body for the catch block
AgentReturns(m, i, reply) ==
    /\ pc[m] = "fanout"
    /\ i \in DOMAIN agentTask[m]
    /\ agentTask[m][i] = "calling"
    /\ reply \in world.agent
    /\ LET result == runSwarmAgent(i, reply)
           agentCount == Len(agentTask[m])
           agents == [swarmStatus[m].agents EXCEPT ![i] =
                         [status |-> IF result.error # "none" THEN "failed"
                                     ELSE "completed",
                          confidence |-> result.confidence,
                          latencyMs |-> result.latencyMs]]
           progress == (Cardinality(Finished(agents)) * 80) \div agentCount
           results == Put(agentResponses[m], i, result)
           allDone == allSettled(results, agentCount)
           outputFlags == scanOutputs(results)
           flagged == [trace[m] EXCEPT !.redTeamFlags = @ \o outputFlags]
           counted == [metrics EXCEPT !.redTeamFlagsTotal = @ + Len(outputFlags)]
           update == emitSwarmEvent(Bus, SwarmEvent(m, "consensus_update", 0))
           start == emitSwarmEvent(update.bus, SwarmEvent(m, "critique_start", 1))
       IN  /\ agentTask' = [agentTask EXCEPT ![m][i] = "done"]
           /\ agentResponses' = [agentResponses EXCEPT ![m] = results]
           /\ IF ~allDone
              THEN /\ swarmStatus' = [swarmStatus EXCEPT ![m].agents = agents,
                                                         ![m].progress = progress]
                   /\ UNCHANGED <<pc, trace, loop, metrics, upstreamCalls, http,
                                  MEMORY_STORE, disk, shouldUseMemory,
                                  activeSwarms, busVars>>
              ELSE IF update.threw
              THEN /\ \E fs \in world.fs :
                         catchBlock(m, flagged,
                                    [swarmStatus[m] EXCEPT !.agents = agents,
                                                           !.progress = progress],
                                    counted, "subscriber failed", fs)
                   /\ SetBus(update.bus)
                   /\ UNCHANGED <<loop, upstreamCalls>>
              ELSE /\ trace' = [trace EXCEPT ![m] = flagged]
                   /\ metrics' = counted
                   /\ loop' = [loop EXCEPT ![m] =
                                 [NoLoop EXCEPT !.currentResponses = results,
                                                !.critiqueIteration = 1]]
                   /\ swarmStatus' = [swarmStatus EXCEPT
                                        ![m].agents = agents,
                                        ![m].progress = 60 + (1 * 20) \div
                                                        MAX_CRITIQUE_ITERATIONS]
                   /\ upstreamCalls' = [upstreamCalls EXCEPT ![m] = @ + 1]
                   /\ pc' = [pc EXCEPT ![m] = "critique"]
                   /\ SetBus(start.bus)
                   /\ UNCHANGED <<http, MEMORY_STORE, disk, shouldUseMemory,
                                  activeSwarms>>
    /\ UNCHANGED <<req, synthesisAttempts, evictTimer, graceElapsed, world,
                   cancelledAt, limiterVars, weightVars, handlers, sideVars>>

-----------------------------------------------------------------------------
(* Critique loop *)

\* runCritiqueRound: scores parsed from the reviewer's text, or the fallback
\* when the reviewer call failed
runCritiqueRound(responses, reply) ==
    IF reply.ok
    THEN [critiquedResponses |->
              [k \in 1..Len(responses) |->
                  [responses[k] EXCEPT !.confidence =
                      Clamp01(IF reply.agentScore # -1 THEN reply.agentScore
                              ELSE responses[k].confidence)]],
          consensusScore |-> Clamp01(IF reply.consensusTag # -1
                                     THEN reply.consensusTag ELSE 0),
          critiqueTokens |-> reply.usage]
    ELSE [critiquedResponses |-> responses,
          consensusScore |->
              IF \E k \in 1..Len(responses) : responses[k].confidence = NaN
              THEN NaN
              ELSE Sum([k \in 1..Len(responses) |-> responses[k].confidence])
                       \div Len(responses),
          critiqueTokens |-> Tokens(0, 0)]

\* the guardian counting the first round as well
critiqueStepFromFirstRound(l, result) ==
    LET consensusScore == result.consensusScore
        improvement == consensusScore - l.previousConsensusScore
        stagnant == /\ consensusScore # NaN
                    /\ l.previousConsensusScore # NaN
                    /\ improvement < MIN_CONSENSUS_IMPROVEMENT
        stagnantIterations == IF stagnant THEN l.stagnantIterations + 1 ELSE 0
        guardian == stagnant /\ stagnantIterations >= GUARDIAN_PATIENCE
        after == [l EXCEPT
                    !.currentResponses = result.critiquedResponses,
                    !.consensusScore = consensusScore,
                    !.totalCritiqueTokens =
                        Tokens(@.input + result.critiqueTokens.input,
                               @.output + result.critiqueTokens.output),
                    !.stagnantIterations = stagnantIterations,
                    !.guardianTriggered = guardian,
                    !.previousConsensusScore =
                        IF guardian THEN @ ELSE consensusScore]
    IN  [loop |-> after,
         stored |-> ~guardian,
         iteration |-> [iterationId |-> l.critiqueIteration,
                        agentResponses |-> result.critiquedResponses,
                        consensusScore |-> consensusScore],
         goesOn |-> ~guardian /\ CritiqueGoesOn(after)]

\* the body of the while loop after runCritiqueRound has returned
critiqueStep(l, result) ==
    LET consensusScore == result.consensusScore
        improvement == consensusScore - l.previousConsensusScore
        stagnant == /\ consensusScore # NaN
                    /\ l.previousConsensusScore # NaN
                    /\ improvement < MIN_CONSENSUS_IMPROVEMENT
                    /\ l.critiqueIteration > 1
        stagnantIterations == IF stagnant THEN l.stagnantIterations + 1 ELSE 0
        guardian == stagnant /\ stagnantIterations >= GUARDIAN_PATIENCE
        after == [l EXCEPT
                    !.currentResponses = result.critiquedResponses,
                    !.consensusScore = consensusScore,
                    !.totalCritiqueTokens =
                        Tokens(@.input + result.critiqueTokens.input,
                               @.output + result.critiqueTokens.output),
                    !.stagnantIterations = stagnantIterations,
                    !.guardianTriggered = guardian,
                    !.previousConsensusScore =
                        IF guardian THEN @ ELSE consensusScore]
    IN  [loop |-> after,
         \* the guardian breaks before the iteration is stored
         stored |-> ~guardian,
         iteration |-> [iterationId |-> l.critiqueIteration,
                        agentResponses |-> result.critiquedResponses,
                        consensusScore |-> consensusScore],
         goesOn |-> ~guardian /\ CritiqueGoesOn(after)]

\* runCritiqueRound once the reviewer call has ended: the thought and the
\* critique_complete event are published inside its try block, so that an
\* exception of a subscriber ends in the fallback of its catch block
critiqueRound(b, m, l, reply) ==
    LET thought == emitThought(b, AgentThought(m, l.critiqueIteration))
        complete == emitSwarmEvent(thought.bus,
                                   SwarmEvent(m, "critique_complete",
                                              l.critiqueIteration))
    IN  IF ~reply.ok
        THEN [result |-> runCritiqueRound(l.currentResponses, reply), bus |-> b]
        ELSE IF thought.threw
        THEN [result |-> runCritiqueRound(l.currentResponses, Failure),
              bus |-> thought.bus]
        ELSE IF complete.threw
        THEN [result |-> runCritiqueRound(l.currentResponses, Failure),
              bus |-> complete.bus]
        ELSE [result |-> runCritiqueRound(l.currentResponses, reply),
              bus |-> complete.bus]

\* the reviewer call ends: the rest of the round, consensus_update, and either
\* the start of the next round or of synthesis
ReviewerReturns(m, reply) ==
    /\ pc[m] = "critique"
    /\ reply \in world.reviewer
    /\ LET round == critiqueRound(Bus, m, loop[m], reply)
           step == critiqueStep(loop[m], round.result)
           stored == IF step.stored
                     THEN [trace[m] EXCEPT !.iterations = Append(@, step.iteration)]
                     ELSE trace[m]
           update == emitSwarmEvent(round.bus,
                                    IF step.loop.guardianTriggered
                                    THEN GuardianFail(m, loop[m].critiqueIteration)
                                    ELSE SwarmEvent(m, "consensus_update",
                                                    loop[m].critiqueIteration))
           start == emitSwarmEvent(update.bus,
                                   SwarmEvent(m, "critique_start",
                                              loop[m].critiqueIteration + 1))
       IN  IF update.threw
           THEN /\ \E fs \in world.fs :
                      catchBlock(m, stored, swarmStatus[m], metrics,
                                 "subscriber failed", fs)
                /\ loop' = [loop EXCEPT ![m] = step.loop]
                /\ SetBus(update.bus)
                /\ UNCHANGED upstreamCalls
           ELSE /\ trace' = [trace EXCEPT ![m] = stored]
                /\ upstreamCalls' = [upstreamCalls EXCEPT ![m] = @ + 1]
                /\ IF step.goesOn
                   THEN /\ loop' = [loop EXCEPT ![m] =
                                      [step.loop EXCEPT !.critiqueIteration = @ + 1]]
                        /\ swarmStatus' = [swarmStatus EXCEPT ![m].progress =
                                             60 + ((loop[m].critiqueIteration + 1) * 20)
                                                  \div MAX_CRITIQUE_ITERATIONS]
                        /\ pc' = pc
                        /\ SetBus(start.bus)
                   ELSE /\ loop' = [loop EXCEPT ![m] = step.loop]
                        /\ swarmStatus' = [swarmStatus EXCEPT
                                             ![m].status = "synthesizing",
                                             ![m].progress = 85]
                        /\ pc' = [pc EXCEPT ![m] = "synthesis"]
                        /\ SetBus(update.bus)
                /\ UNCHANGED <<http, MEMORY_STORE, disk, shouldUseMemory,
                               activeSwarms, metrics>>
    /\ UNCHANGED <<req, agentTask, agentResponses, synthesisAttempts,
                   evictTimer, graceElapsed, world, cancelledAt, limiterVars,
                   weightVars, handlers, sideVars>>

-----------------------------------------------------------------------------
(* Synthesis *)

\* "Synthesis failed"
SynthesisFailedText == Text(16, 2, FALSE, 0, {}, NoPii)

\* the success path of executeMission after runSynthesis has returned
MissionCompletes(m, reply, fs) ==
    LET content == IF reply.text.chars > 0 THEN reply.text ELSE SynthesisFailedText
        synthesisFlags == scanContent(content, "synthesis")
        combinedSynthesisTokens ==
            Tokens(reply.usage.input + loop[m].totalCritiqueTokens.input,
                   reply.usage.output + loop[m].totalCritiqueTokens.output)
        actualCost == calculateActualCost(loop[m].currentResponses,
                                          combinedSynthesisTokens)
        t == [trace[m] EXCEPT
                !.redTeamFlags = @ \o synthesisFlags,
                !.synthesisResult = sanitizeForTrace(content),
                !.actualCost = actualCost,
                !.status = "completed"]
    IN  /\ trace' = [trace EXCEPT ![m] = t]
        /\ saveOwnTrace(t, fs)
        /\ metrics' = [metrics EXCEPT
                         !.redTeamFlagsTotal = @ + Len(synthesisFlags),
                         !.costTotal = @ + actualCost,
                         !.missionsSuccess = @ + 1]
        /\ swarmStatus' = [swarmStatus EXCEPT ![m].status = "completed",
                                              ![m].progress = 100]
        /\ evictTimer' = [evictTimer EXCEPT ![m] = "armed"]
        /\ http' = Put(http, m, Response(200, "mission", m, actualCost))
        /\ pc' = [pc EXCEPT ![m] = "done"]
        /\ UNCHANGED <<activeSwarms, upstreamCalls>>

\* the catch block without incrementMissionsFailed
MissionFailsUncounted(m, error, fs) ==
    LET t == [trace[m] EXCEPT !.status = "failed", !.error = error]
    IN  /\ trace' = [trace EXCEPT ![m] = t]
        /\ saveOwnTrace(t, fs)
        /\ swarmStatus' = [swarmStatus EXCEPT ![m].status = "failed"]
        /\ activeSwarms' = activeSwarms \ {m}
        /\ metrics' = [metrics EXCEPT
                         !.swarmAgentsActive = Cardinality(activeSwarms \ {m})]
        /\ http' = Put(http, m, Response(500, "none", m, 0))
        /\ pc' = [pc EXCEPT ![m] = "done"]
        /\ UNCHANGED <<evictTimer, upstreamCalls>>

\* the catch block marking every registered SwarmStatus failed
MissionFailsEverySwarm(m, error, fs) ==
    LET t == [trace[m] EXCEPT !.status = "failed", !.error = error]
    IN  /\ trace' = [trace EXCEPT ![m] = t]
        /\ saveOwnTrace(t, fs)
        /\ swarmStatus' = [k \in DOMAIN swarmStatus |->
                             [swarmStatus[k] EXCEPT !.status = "failed"]]
        /\ activeSwarms' = activeSwarms \ {m}
        /\ metrics' = [metrics EXCEPT
                         !.missionsFailed = @ + 1,
                         !.swarmAgentsActive = Cardinality(activeSwarms \ {m})]
        /\ http' = Put(http, m, Response(500, "none", m, 0))
        /\ pc' = [pc EXCEPT ![m] = "done"]
        /\ UNCHANGED <<evictTimer, upstreamCalls>>

\* the catch block of executeMission
MissionFails(m, error, fs) ==
    LET t == [trace[m] EXCEPT !.status = "failed", !.error = error]
    IN  /\ trace' = [trace EXCEPT ![m] = t]
        /\ saveOwnTrace(t, fs)
        /\ swarmStatus' = [swarmStatus EXCEPT ![m].status = "failed"]
        /\ activeSwarms' = activeSwarms \ {m}
        /\ metrics' = [metrics EXCEPT
                         !.missionsFailed = @ + 1,
                         !.swarmAgentsActive = Cardinality(activeSwarms \ {m})]
        /\ http' = Put(http, m, Response(500, "none", m, 0))
        /\ pc' = [pc EXCEPT ![m] = "done"]
        /\ UNCHANGED <<evictTimer, upstreamCalls>>

\* a failed primary call fails the mission at once
SynthesisReturnsNoFallback(m, reply, fs) ==
    /\ pc[m] = "synthesis"
    /\ reply \in world.synthesis
    /\ synthesisAttempts' = [synthesisAttempts EXCEPT ![m] = Append(@, reply)]
    /\ IF reply.ok
       THEN MissionCompletes(m, reply, fs)
       ELSE MissionFails(m, "Both synthesis models failed", fs)
    /\ UNCHANGED <<req, agentTask, agentResponses, loop, graceElapsed, world, apart>>

\* the call to the synthesis model ends
SynthesisReturns(m, reply, fs) ==
    /\ pc[m] = "synthesis"
    /\ reply \in world.synthesis
    /\ synthesisAttempts' = [synthesisAttempts EXCEPT ![m] = Append(@, reply)]
    /\ IF reply.ok
       THEN MissionCompletes(m, reply, fs)
       ELSE /\ pc' = [pc EXCEPT ![m] = "fallback"]
            /\ upstreamCalls' = [upstreamCalls EXCEPT ![m] = @ + 1]
            /\ UNCHANGED <<http, MEMORY_STORE, disk, shouldUseMemory, trace,
                           swarmStatus, activeSwarms, metrics, evictTimer>>
    /\ UNCHANGED <<req, agentTask, agentResponses, loop, graceElapsed, world, apart>>

\* the call to the fallback model ends
FallbackReturns(m, reply, fs) ==
    /\ pc[m] = "fallback"
    /\ reply \in world.synthesis
    /\ synthesisAttempts' = [synthesisAttempts EXCEPT ![m] = Append(@, reply)]
    /\ IF reply.ok
       THEN MissionCompletes(m, reply, fs)
       ELSE MissionFails(m, "Both synthesis models failed", fs)
    /\ UNCHANGED <<req, agentTask, agentResponses, loop, graceElapsed, world, apart>>

-----------------------------------------------------------------------------
(* Time *)

\* 30 s pass after the mission reached its terminal status
GraceElapses(m) ==
    /\ m \in DOMAIN swarmStatus
    /\ swarmStatus[m].status \in {"completed", "failed"}
    /\ ~graceElapsed[m]
    /\ graceElapsed' = [graceElapsed EXCEPT ![m] = TRUE]
    /\ UNCHANGED <<pc, req, http, MEMORY_STORE, disk, shouldUseMemory, trace,
                   swarmStatus, activeSwarms, agentTask, agentResponses, loop,
                   metrics, upstreamCalls, synthesisAttempts, evictTimer, world, apart>>

\* the setTimeout callback of the success path
EvictionTimerFires(m) ==
    /\ evictTimer[m] = "armed"
    /\ graceElapsed[m]
    /\ evictTimer' = [evictTimer EXCEPT ![m] = "fired"]
    /\ activeSwarms' = activeSwarms \ {m}
    /\ metrics' = [metrics EXCEPT
                     !.swarmAgentsActive = Cardinality(activeSwarms \ {m})]
    /\ UNCHANGED <<pc, req, http, MEMORY_STORE, disk, shouldUseMemory, trace,
                   swarmStatus, agentTask, agentResponses, loop,
                   upstreamCalls, synthesisAttempts, graceElapsed, world, apart>>

-----------------------------------------------------------------------------
(* Trace store operations of other callers *)

TraceStatuses == {"pending", "running", "completed", "failed"}

\* updateTrace(traceId, {status}): a shallow copy of the stored trace with the
\* patch applied is saved in its place
updateTrace(traceId, updates, fs) ==
    /\ traceId \in DOMAIN MEMORY_STORE
    /\ updates \in [status : TraceStatuses]
    /\ LET existing == getTrace(traceId)
           updated == [existing EXCEPT !.status = updates.status]
       IN  SetStore(saveTrace(Store, traceId, [ref |-> FALSE, own |-> updated],
                              updated, fs))
    /\ UNCHANGED <<pc, req, http, trace, swarmStatus, activeSwarms, agentTask,
                   agentResponses, loop, metrics, upstreamCalls,
                   synthesisAttempts, evictTimer, graceElapsed, world, apart>>

-----------------------------------------------------------------------------
(* Cancellation *)

\* the client of an in-flight request goes away: executeMission takes no
\* signal and the route registers no listener, so no state of the engine
\* changes
CancellationSignal(m) ==
    /\ pc[m] \in {"fanout", "critique", "synthesis", "fallback"}
    /\ m \notin DOMAIN cancelledAt
    /\ cancelledAt' = Put(cancelledAt, m, upstreamCalls[m])
    /\ UNCHANGED <<pc, req, http, MEMORY_STORE, disk, shouldUseMemory, trace,
                   swarmStatus, activeSwarms, agentTask, agentResponses, loop,
                   metrics, upstreamCalls, synthesisAttempts, evictTimer,
                   graceElapsed, world, limiterVars, weightVars, handlers,
                   busVars, sideVars>>

-----------------------------------------------------------------------------
(* Rate limiter middleware *)

\* the middleware: next() or 429 with Retry-After in seconds
rateLimiter(key, config) ==
    /\ lastResponse.sent < MaxSent
    /\ LET check == checkRateLimit(rateLimitStore, key, config, now)
       IN  /\ rateLimitStore' = check.store
           /\ passed' = IF check.allowed
                         THEN [passed EXCEPT ![key] = Append(@, now)]
                         ELSE passed
           /\ lastResponse' =
                 [key |-> key,
                  status |-> IF check.allowed THEN 200 ELSE 429,
                  retryAfter |-> IF check.allowed THEN 0
                                 ELSE CeilDiv(check.resetIn, 1000),
                  remaining |-> check.remaining,
                  sent |-> lastResponse.sent + 1]
    /\ UNCHANGED <<now, engineVars, cancelledAt, weightVars, handlers, busVars, sideVars>>

\* a millisecond passes
Tick ==
    /\ now < MaxTime
    /\ now' = now + 1
    /\ UNCHANGED <<rateLimitStore, passed, lastResponse, engineVars, cancelledAt,
                   weightVars, handlers, busVars, sideVars>>

-----------------------------------------------------------------------------
(* Posterior weights of an array and of its reorderings *)

Calculate ==
    /\ posterior' = [computed |-> TRUE,
                     weights |-> calculatePosteriorWeights(responsesIn)]
    /\ UNCHANGED <<responsesIn, engineVars, cancelledAt, limiterVars, handlers,
                   busVars, sideVars>>

\* the same responses in another order
Reorder(i) ==
    /\ i \in 1..(Len(responsesIn) - 1)
    /\ responsesIn' = [responsesIn EXCEPT ![i] = responsesIn[i + 1],
                                          ![i + 1] = responsesIn[i]]
    /\ UNCHANGED <<posterior, engineVars, cancelledAt, limiterVars, handlers,
                   busVars, sideVars>>

-----------------------------------------------------------------------------
(* Subscribers and publishers of the event bus *)

\* subscribeToTrace and subscribeToThoughts: a new handler around the callback
\* is registered for the event name of the channel and the trace id
register(channel, traceId, callback, conn) ==
    /\ Len(handlers) < MaxHandlers
    /\ handlers' = Append(handlers,
                          [channel |-> channel, traceId |-> traceId,
                           callback |-> callback, conn |-> conn,
                           subscribedAt |-> Len(published[channel][traceId]),
                           handleCalls |-> 0, unsubscribedAt |-> -1])
    /\ SetBus([on(Bus, channel, traceId, Len(handlers) + 1)
                 EXCEPT !.received = Append(@, << >>)])

\* a subscriber that is no connection
subscribe(channel, traceId, callback) ==
    /\ register(channel, traceId, callback, 0)
    /\ UNCHANGED <<engineVars, cancelledAt, limiterVars, weightVars, sideVars>>

subscribeToTrace(traceId, callback) == subscribe("swarm", traceId, callback)

subscribeToThoughts(traceId, callback) == subscribe("thought", traceId, callback)

\* the function subscribe has returned is called
Unsubscribe(h) ==
    /\ h \in 1..Len(handlers)
    /\ handlers[h].handleCalls < MaxHandleCalls
    /\ handlers' = [handlers EXCEPT
                      ![h].handleCalls = @ + 1,
                      ![h].unsubscribedAt =
                          IF @ = -1
                          THEN Len(published[handlers[h].channel][handlers[h].traceId])
                          ELSE @]
    /\ SetBus(off(Bus, handlers[h].channel, handlers[h].traceId, h))
    /\ UNCHANGED <<engineVars, cancelledAt, limiterVars, weightVars, sideVars>>

Emitted == Sum([k \in 1..MaxMissions |-> Len(published["swarm"][k])])
              + Sum([k \in 1..MaxMissions |-> Len(published["thought"][k])])

\* some publisher calls emitSwarmEvent or emitThought
Publishes(channel, traceId) ==
    /\ Emitted < MaxPublished
    /\ SetBus(emit(Bus, channel,
                   SwarmEvent(traceId, "consensus_update",
                              Len(published[channel][traceId]))).bus)
    /\ UNCHANGED <<handlers, engineVars, cancelledAt, limiterVars, weightVars, sideVars>>

-----------------------------------------------------------------------------
(* WebSocket handler *)

MessageTypes == {"subscribe", "stream_thoughts", "stream_events"}

Range(seq) == {seq[k] : k \in DOMAIN seq}

\* a close handler that leaves the subscriptions where they are
unsubscribeNone(b, subscriptions) == b

\* for (const unsubscribe of subscriptions) unsubscribe()
RECURSIVE unsubscribeAll(_, _)
unsubscribeAll(b, subscriptions) ==
    IF subscriptions = << >> THEN b
    ELSE LET h == Head(subscriptions)
         IN  unsubscribeAll(off(b, handlers[h].channel, handlers[h].traceId, h),
                            Tail(subscriptions))

\* the handles of the subscriptions have been called
handlesCalled(subscriptions) ==
    [h \in DOMAIN handlers |->
        IF h \in Range(subscriptions)
        THEN [handlers[h] EXCEPT
                !.handleCalls = @ + 1,
                !.unsubscribedAt =
                    IF @ = -1
                    THEN Len(published[handlers[h].channel][handlers[h].traceId])
                    ELSE @]
        ELSE handlers[h]]

socketVars == <<engineVars, cancelledAt, limiterVars, weightVars, lookup, client>>

\* wss.on("connection")
Connection(c) ==
    /\ sockets[c].readyState = "none"
    /\ sockets' = [sockets EXCEPT ![c] = [NoSocket EXCEPT !.readyState = "OPEN",
                                                            !.tracked = TRUE]]
    /\ UNCHANGED <<socketVars, handlers, busVars>>

\* ws.on("message"), for a message with a trace id
OnMessage(c, type, traceId) ==
    /\ sockets[c].readyState \in {"OPEN", "CLOSING"}
    /\ sockets[c].messages < MaxMessages
    /\ IF type = "subscribe"
       THEN /\ sockets' = [sockets EXCEPT
                             ![c].messages = @ + 1,
                             ![c].intervals =
                                 Append(@, [traceId |-> traceId, active |-> TRUE])]
            /\ UNCHANGED <<handlers, busVars>>
       ELSE /\ register(IF type = "stream_thoughts" THEN "thought" ELSE "swarm",
                        traceId, SocketCallback, c)
            /\ sockets' = [sockets EXCEPT
                             ![c].messages = @ + 1,
                             ![c].tracked = TRUE,
                             ![c].subscriptions = Append(@, Len(handlers) + 1)]
    /\ UNCHANGED socketVars

\* the callback of setInterval(..., 500)
IntervalFires(c, k) ==
    /\ k \in 1..Len(sockets[c].intervals)
    /\ sockets[c].intervals[k].active
    /\ LET status == getSwarmStatus(sockets[c].intervals[k].traceId)
       IN  IF status # {}
           THEN /\ outbox' = [outbox EXCEPT ![c] = wsSend(@, sockets[c].readyState)]
                /\ sockets' = [sockets EXCEPT ![c].intervals[k].active =
                                 \A st \in status :
                                     st.status \notin {"completed", "failed"}]
           ELSE /\ sockets' = [sockets EXCEPT ![c].intervals[k].active = FALSE]
                /\ UNCHANGED outbox
    /\ UNCHANGED <<socketVars, handlers, listeners, received, published>>

\* the closing handshake starts: the socket is no longer open, its close event
\* is still to come
Closing(c) ==
    /\ sockets[c].readyState = "OPEN"
    /\ sockets' = [sockets EXCEPT ![c].readyState = "CLOSING"]
    /\ UNCHANGED <<socketVars, handlers, busVars>>

\* ws.on("error"): the socket is closed by the library, the close event follows
OnError(c) ==
    /\ sockets[c].readyState \in {"OPEN", "CLOSING"}
    /\ SetBus(unsubscribeAll(Bus, sockets[c].subscriptions))
    /\ handlers' = handlesCalled(sockets[c].subscriptions)
    /\ sockets' = [sockets EXCEPT ![c].readyState = "CLOSING",
                                  ![c].tracked = FALSE,
                                  ![c].subscriptions = << >>]
    /\ UNCHANGED socketVars

\* the close event: the handler set at the connection, then the listeners that
\* the subscribe messages have added, one clearInterval each
OnClose(c) ==
    /\ sockets[c].readyState \in {"OPEN", "CLOSING"}
    /\ SetBus(unsubscribeAll(Bus, sockets[c].subscriptions))
    /\ handlers' = handlesCalled(sockets[c].subscriptions)
    /\ sockets' = [sockets EXCEPT
                     ![c].readyState = "CLOSED",
                     ![c].tracked = FALSE,
                     ![c].subscriptions = << >>,
                     ![c].intervals = [k \in DOMAIN @ |-> [@[k] EXCEPT !.active = FALSE]]]
    /\ UNCHANGED socketVars

-----------------------------------------------------------------------------
(* Upstream client: callOpenRouter *)

maxRetries == 5
baseBackoffMs == 1000
maxBackoffMs == 32000

RECURSIVE Pow2(_)
Pow2(n) == IF n = 0 THEN 1 ELSE 2 * Pow2(n - 1)

\* how a fetch attempt ends: a 2xx answer, a 429, a 5xx or another 4xx whose
\* body may contain the words "Rate limit", or a rejected fetch
FetchOutcomes == {"ok", "429", "5xx", "5xx Rate limit", "4xx", "transport"}

\* the message of the error thrown inside the try block for an outcome
ErrorMessage(outcome) ==
    IF outcome = "429" THEN "Rate limit exceeded after max retries"
    ELSE IF outcome = "5xx Rate limit" THEN "OpenRouter API error: 5xx - Rate limit"
    ELSE IF outcome = "transport" THEN "fetch failed"
    ELSE "OpenRouter API error"

\* error.message.includes("Rate limit")
IncludesRateLimit(message) ==
    message \in {"Rate limit exceeded after max retries",
                 "OpenRouter API error: 5xx - Rate limit"}

\* callOpenRouter is entered: without OPENROUTER_API_KEY it throws at once,
\* otherwise the first fetch is under way
callOpenRouter(apiKey) ==
    /\ client.state = "idle"
    /\ client' = IF ~apiKey
                 THEN [client EXCEPT !.state = "thrown",
                                     !.error = "OPENROUTER_API_KEY is not set"]
                 ELSE [client EXCEPT !.state = "fetching"]
    /\ UNCHANGED <<engineVars, cancelledAt, limiterVars, weightVars, handlers,
                   busVars, sockets, lookup>>

\* the fetch of the current attempt ends
FetchEnds(outcome) ==
    /\ client.state = "fetching"
    /\ LET retryCount == client.retryCount
           tried == [client EXCEPT !.attempts = Append(@, outcome)]
           message == ErrorMessage(outcome)
       IN  client' =
             IF outcome = "ok"
             THEN [tried EXCEPT !.state = "returned"]
             ELSE IF outcome = "429" /\ retryCount < maxRetries
             THEN [tried EXCEPT
                     !.state = "sleeping",
                     !.waits = Append(@, Min(baseBackoffMs * Pow2(retryCount),
                                             maxBackoffMs))]
             ELSE IF IncludesRateLimit(message)
             THEN [tried EXCEPT !.state = "thrown", !.error = message]
             ELSE IF retryCount < maxRetries
             THEN [tried EXCEPT
                     !.state = "sleeping",
                     !.waits = Append(@, baseBackoffMs * Pow2(retryCount))]
             ELSE [tried EXCEPT !.state = "thrown", !.error = message]
    /\ UNCHANGED <<engineVars, cancelledAt, limiterVars, weightVars, handlers,
                   busVars, sockets, lookup>>

\* the backoff is over: callOpenRouter(request, retryCount + 1, config)
SleepEnds ==
    /\ client.state = "sleeping"
    /\ client' = [client EXCEPT !.state = "fetching", !.retryCount = @ + 1]
    /\ UNCHANGED <<engineVars, cancelledAt, limiterVars, weightVars, handlers,
                   busVars, sockets, lookup>>

-----------------------------------------------------------------------------
(* Trace routes *)

\* a path parameter: the lengths of its groups between hyphens, whether every
\* character of the groups is a hexadecimal digit, and the mission whose
\* trace id it spells (0: nobody's)
PathParam(groups, hex, id) == [groups |-> groups, hex |-> hex, id |-> id]

\* the trace id of mission m, as crypto.randomUUID makes it
UuidOf(m) == PathParam(<<8, 4, 4, 4, 12>>, TRUE, m)

PathParams ==
    {UuidOf(m) : m \in Slots} \cup
    {PathParam(<<8, 4, 4, 4, 12>>, TRUE, 0),    \* a UUID no mission has
     PathParam(<<3, 1, 4>>, FALSE, 0),          \* not-a-uuid
     PathParam(<<8, 4, 4, 4, 12>>, FALSE, 0),   \* a letter beyond f
     PathParam(<<8, 4, 4, 4>>, TRUE, 0),        \* the last group is missing
     PathParam(<<32>>, TRUE, 0)}                \* no hyphens

\* a schema that takes any string
TraceIdSchemaAnyString(param) == TRUE

\* z.string().uuid()
TraceIdSchema(param) == param.groups = <<8, 4, 4, 4, 12>> /\ param.hex

validateParams(param) == TraceIdSchema(param)

\* getTrace for an id that may be unknown: the memory entry if there is one,
\* else the file, which is read only when the traces directory can be used
lookupTrace(store, traceId, fs) ==
    IF traceId \in DOMAIN store.memory
    THEN [store |-> store, found |-> TRUE]
    ELSE IF store.shouldUseMemory
    THEN [store |-> store, found |-> FALSE]
    ELSE IF fs # "ok"
    THEN [store |-> [store EXCEPT !.shouldUseMemory = TRUE], found |-> FALSE]
    ELSE IF traceId \in DOMAIN store.disk
    THEN [store |-> [store EXCEPT !.memory =
                        Put(@, traceId, [ref |-> FALSE, own |-> store.disk[traceId]])],
          found |-> TRUE]
    ELSE [store |-> store, found |-> FALSE]

Answer(route, param, status, consulted) ==
    lookup' = [route |-> route, param |-> param, status |-> status,
               consulted |-> consulted, served |-> lookup.served + 1]

routeVars == <<pc, req, http, trace, swarmStatus, activeSwarms, agentTask,
               agentResponses, loop, metrics, upstreamCalls, synthesisAttempts,
               evictTimer, graceElapsed, world, cancelledAt, limiterVars,
               weightVars, handlers, busVars, sockets, client>>

\* GET /api/mission/:traceId
GetMission(param, fs) ==
    /\ lookup.served < MaxLookups
    /\ IF ~validateParams(param)
       THEN /\ Answer("trace", param, 400, {})
            /\ UNCHANGED <<MEMORY_STORE, disk, shouldUseMemory>>
       ELSE LET r == lookupTrace(Store, param.id, fs)
            IN  /\ Answer("trace", param, IF r.found THEN 200 ELSE 404, {"store"})
                /\ SetStore(r.store)
    /\ UNCHANGED routeVars

\* GET /api/mission/:traceId/status
GetMissionStatus(param, fs) ==
    /\ lookup.served < MaxLookups
    /\ IF ~validateParams(param)
       THEN /\ Answer("status", param, 400, {})
            /\ UNCHANGED <<MEMORY_STORE, disk, shouldUseMemory>>
       ELSE IF getSwarmStatus(param.id) # {}
       THEN /\ Answer("status", param, 200, {"swarms"})
            /\ UNCHANGED <<MEMORY_STORE, disk, shouldUseMemory>>
       ELSE LET r == lookupTrace(Store, param.id, fs)
            IN  /\ Answer("status", param, IF r.found THEN 200 ELSE 404,
                          {"swarms", "store"})
                /\ SetStore(r.store)
    /\ UNCHANGED routeVars

-----------------------------------------------------------------------------
(* Specifications *)

Next ==
    \/ \E m \in Slots, body \in world.bodies, fs \in world.fs :
          PostMissionExecute(m, body, fs)
    \/ \E m \in Slots : \E i \in DOMAIN agentTask[m] : AgentWakes(m, i)
    \/ \E m \in Slots : \E i \in DOMAIN agentTask[m], reply \in world.agent :
          AgentReturns(m, i, reply)
    \/ \E m \in Slots, reply \in world.reviewer : ReviewerReturns(m, reply)
    \/ \E m \in Slots, reply \in world.synthesis, fs \in world.fs :
          SynthesisReturns(m, reply, fs)
    \/ \E m \in Slots, reply \in world.synthesis, fs \in world.fs :
          FallbackReturns(m, reply, fs)
    \/ \E m \in Slots : GraceElapses(m)
    \/ \E m \in Slots : EvictionTimerFires(m)

\* one request against any upstream
Spec == Init /\ [][Next]_vars

\* MaxMissions requests in flight together
SpecConcurrent == InitConcurrent /\ [][Next]_vars

NextStore ==
    \/ Next
    \/ \E traceId \in Slots, updates \in [status : TraceStatuses], fs \in world.fs :
          updateTrace(traceId, updates, fs)

\* one request, with a caller of updateTrace at work on the trace store
SpecStore == InitStore /\ [][NextStore]_vars

NextCancel ==
    \/ Next
    \/ \E m \in Slots : CancellationSignal(m)

\* one request whose client may go away while it is in flight
SpecCancel == InitStore /\ [][NextCancel]_vars

\* no mission, requests of two clients at the rate limiter
InitLimiter ==
    /\ InitCommon
    /\ pc = [m \in Slots |-> "off"]
    /\ world = PlainWorld

NextLimiter ==
    \/ \E key \in Keys : rateLimiter(key, TestConfig)
    \/ Tick

SpecLimiter == InitLimiter /\ [][NextLimiter]_vars

\* no mission, calculatePosteriorWeights on any array of responses
InitWeights ==
    /\ InitIdle
    /\ pc = [m \in Slots |-> "off"]
    /\ world = PlainWorld
    /\ responsesIn \in WeighedArrays

NextWeights ==
    \/ Calculate
    \/ \E i \in 1..MaxSwarmSize : Reorder(i)

SpecWeights == InitWeights /\ [][NextWeights]_vars

NextBus ==
    \/ \E traceId \in Slots, callback \in Callbacks :
          subscribeToTrace(traceId, callback)
    \/ \E traceId \in Slots, callback \in Callbacks :
          subscribeToThoughts(traceId, callback)
    \/ \E h \in 1..MaxHandlers : Unsubscribe(h)
    \/ \E channel \in Channels, traceId \in Slots : Publishes(channel, traceId)

\* no mission: subscribers and a publisher at the event bus
InitBus ==
    /\ InitCommon
    /\ pc = [m \in Slots |-> "off"]
    /\ world = PlainWorld

SpecBus == InitBus /\ [][NextBus]_vars

NextSubscribers ==
    \/ Next
    \/ \E traceId \in Slots, callback \in Callbacks :
          subscribeToTrace(traceId, callback)
    \/ \E traceId \in Slots, callback \in Callbacks :
          subscribeToThoughts(traceId, callback)
    \/ \E h \in 1..MaxHandlers : Unsubscribe(h)

\* one request, with subscribers to its events and thoughts
SpecSubscribers == InitStore /\ [][NextSubscribers]_vars

\* one request against any reviewer
InitLoop ==
    /\ InitCommon
    /\ pc = [m \in Slots |-> IF m = 1 THEN "idle" ELSE "off"]
    /\ world = LoopWorld

\* every upstream call that was issued comes back
UpstreamAnswers ==
    \A m \in Slots :
        /\ WF_vars(\E i \in 1..MaxSwarmSize : AgentWakes(m, i))
        /\ WF_vars(\E i \in 1..MaxSwarmSize, reply \in world.agent :
                      AgentReturns(m, i, reply))
        /\ WF_vars(\E reply \in world.reviewer : ReviewerReturns(m, reply))

SpecLoop == InitLoop /\ [][Next]_vars /\ UpstreamAnswers

\* no mission: one call of the upstream client
InitClient ==
    /\ InitCommon
    /\ pc = [m \in Slots |-> "off"]
    /\ world = PlainWorld

NextClient ==
    \/ \E apiKey \in BOOLEAN : callOpenRouter(apiKey)
    \/ \E outcome \in FetchOutcomes : FetchEnds(outcome)
    \/ SleepEnds

SpecClient == InitClient /\ [][NextClient]_vars

NextRoutes ==
    \/ Next
    \/ \E param \in PathParams, fs \in {"ok", "mkdirFails"} : GetMission(param, fs)
    \/ \E param \in PathParams, fs \in {"ok", "mkdirFails"} :
          GetMissionStatus(param, fs)

\* one request, with a client that asks for traces and statuses
SpecRoutes == InitStore /\ [][NextRoutes]_vars

NextSockets ==
    \/ Next
    \/ \E c \in Conns : Connection(c)
    \/ \E c \in Conns, type \in MessageTypes, traceId \in Slots :
          OnMessage(c, type, traceId)
    \/ \E c \in Conns, k \in 1..MaxMessages : IntervalFires(c, k)
    \/ \E c \in Conns : Closing(c)
    \/ \E c \in Conns : OnError(c)
    \/ \E c \in Conns : OnClose(c)

\* one request, with clients connected over WebSocket
SpecSockets == InitStore /\ [][NextSockets]_vars

\* one request for a swarm of the default size
InitDefault ==
    /\ InitCommon
    /\ pc = [m \in Slots |-> IF m = 1 THEN "idle" ELSE "off"]
    /\ world = DefaultWorld

SpecDefault == InitDefault /\ [][Next]_vars

-----------------------------------------------------------------------------
(* Properties *)

\* the requests that reached executeMission
Calls == {m \in DOMAIN req : req[m].engine}

agentCountOf(r) == Min(Max(r.swarmSize, 1), maxAgents)

\* the preflight estimate of a request exceeds its budget
EstimateExceeds(r) ==
    estimateCost(r.mission, agentCountOf(r), r.maxBudget).totalCost > r.maxBudget

\* the input scan of a request has a HIGH or CRITICAL flag
InputBlocked(r) ==
    LET flags == scanContent(r.mission, "input")
    IN  \E k \in 1..Len(flags) : flags[k].severity \in {"HIGH", "CRITICAL"}

\* nothing of the mission exists: no trace, no status, no upstream call
NothingCreated(m) ==
    /\ m \notin DOMAIN MEMORY_STORE
    /\ m \notin DOMAIN disk
    /\ m \notin DOMAIN swarmStatus
    /\ m \notin activeSwarms
    /\ upstreamCalls[m] = 0

\* C1 as stated: every executeMission call whose estimate exceeds maxBudget is
\* rejected with the budget error, with no Trace persisted, no SwarmStatus
\* created and no upstream call made.
BudgetGuardEveryCall ==
    \A m \in Calls :
        EstimateExceeds(req[m]) =>
            /\ pc[m] = "done"
            /\ http[m].status = 402
            /\ NothingCreated(m)

\* C1 amended: a call that the input scan does not block and whose estimate
\* exceeds maxBudget is rejected with the budget error and nothing is created;
\* every stored Trace that is running or completed has costEstimate <= maxBudget.
BudgetGuard ==
    /\ \A m \in Calls :
          (~InputBlocked(req[m]) /\ EstimateExceeds(req[m])) =>
              /\ pc[m] = "done"
              /\ http[m].status = 402
              /\ NothingCreated(m)
    /\ \A id \in DOMAIN MEMORY_STORE :
          getTrace(id).status \in {"running", "completed"} =>
              getTrace(id).costEstimate <= req[id].maxBudget
    /\ \A id \in DOMAIN disk :
          disk[id].status \in {"running", "completed"} =>
              disk[id].costEstimate <= req[id].maxBudget

BudgetGuardWitness ==
    \E m \in Calls :
        /\ ~InputBlocked(req[m])
        /\ EstimateExceeds(req[m])
        /\ pc[m] = "done"
        /\ http[m].status = 402

\* C2 (state part): a mission whose input scan has a HIGH or CRITICAL flag
\* ends with a stored failed Trace carrying the block error and with the
\* safety-blocked rejection, with no upstream call, no SwarmStatus and no
\* entry among the active swarms.
SafetyBlockState ==
    \A m \in Calls :
        InputBlocked(req[m]) =>
            /\ pc[m] = "done"
            /\ m \in DOMAIN MEMORY_STORE
            /\ getTrace(m).status = "failed"
            /\ getTrace(m).error = "Mission blocked by safety system"
            /\ getTrace(m).redTeamFlags = scanContent(req[m].mission, "input")
            /\ http[m].status = 403
            /\ upstreamCalls[m] = 0
            /\ m \notin DOMAIN swarmStatus
            /\ m \notin activeSwarms

\* C2 (step part): the step that blocks a mission increments missions_failed
\* and leaves the active swarms, their gauge and the upstream calls alone.
SafetyBlockStep ==
    \A m \in Slots :
        (m \notin DOMAIN req /\ m \in DOMAIN req' /\ req'[m].engine
           /\ InputBlocked(req'[m])) =>
            /\ metrics'.missionsFailed = metrics.missionsFailed + 1
            /\ metrics'.missionsSuccess = metrics.missionsSuccess
            /\ metrics'.swarmAgentsActive = metrics.swarmAgentsActive
            /\ activeSwarms' = activeSwarms
            /\ swarmStatus' = swarmStatus
            /\ upstreamCalls' = upstreamCalls

\* C2: for every mission whose input scan contains at least one HIGH or
\* CRITICAL flag, a Trace with status failed and the block error is persisted,
\* the failure counter is incremented, the safety-blocked error is raised, no
\* upstream model call is made and no SwarmStatus is ever visible for it.
SafetyBlock == []SafetyBlockState /\ [][SafetyBlockStep]_vars

\* a mission is blocked while another one is running
SafetyBlockWitness ==
    \E m \in Calls :
        /\ InputBlocked(req[m])
        /\ http[m].status = 403
        /\ metrics.missionsFailed >= 1
        /\ \E other \in activeSwarms : swarmStatus[other].status = "running"

\* the agent responses of a launched mission
agentCount(m) == Len(swarmStatus[m].agents)

\* C3: an agent whose upstream call failed is recorded with an error,
\* confidence 0 and agent status failed; once all N tasks have returned the
\* mission goes on with N responses into the critique loop and to synthesis,
\* and only the failure of both synthesis models fails the mission.
AgentFailureIsolation ==
    \A m \in DOMAIN swarmStatus :
        /\ \A i \in DOMAIN agentResponses[m] :
              /\ agentTask[m][i] = "done"
              /\ agentResponses[m][i].error # "none" =>
                    /\ agentResponses[m][i].confidence = 0
                    /\ swarmStatus[m].agents[i].status = "failed"
              /\ agentResponses[m][i].error = "none" =>
                    swarmStatus[m].agents[i].status = "completed"
        /\ DOMAIN agentResponses[m] = 1..agentCount(m) =>
              /\ pc[m] \in {"critique", "synthesis", "fallback", "done"}
              /\ Len(loop[m].currentResponses) = agentCount(m)
              /\ loop[m].critiqueIteration >= 1
        /\ pc[m] = "done" =>
              /\ DOMAIN agentResponses[m] = 1..agentCount(m)
              /\ Len(synthesisAttempts[m]) >= 1
        /\ getTrace(m).status = "failed" =>
              /\ getTrace(m).error = "Both synthesis models failed"
              /\ \A k \in 1..Len(synthesisAttempts[m]) : ~synthesisAttempts[m][k].ok

\* every agent of a swarm of two failed and the mission completed
AgentFailureIsolationWitness ==
    \E m \in DOMAIN swarmStatus :
        /\ agentCount(m) >= 2
        /\ pc[m] = "done"
        /\ \A i \in 1..agentCount(m) : agentResponses[m][i].error # "none"
        /\ getTrace(m).status = "completed"
        /\ http[m].status = 200

\* C4: the fallback model is attempted exactly when the primary synthesis
\* call failed, and attempted once; the mission completes with the result of
\* the last attempt when that attempt succeeded, and fails with
\* "Both synthesis models failed" when both attempts failed.
SynthesisFallback ==
    \A m \in DOMAIN swarmStatus :
        LET a == synthesisAttempts[m]
        IN  /\ Len(a) <= 2
            /\ Len(a) = 2 => ~a[1].ok
            /\ pc[m] = "fallback" <=> (Len(a) = 1 /\ ~a[1].ok)
            /\ pc[m] \in {"fanout", "critique", "synthesis"} => Len(a) = 0
            /\ pc[m] = "done" =>
                  /\ Len(a) >= 1
                  /\ upstreamCalls[m]
                        = agentCount(m) + loop[m].critiqueIteration + Len(a)
                  /\ IF a[Len(a)].ok
                     THEN /\ getTrace(m).status = "completed"
                          /\ getTrace(m).synthesisResult
                                = sanitizeForTrace(a[Len(a)].text)
                          /\ http[m].status = 200
                     ELSE /\ Len(a) = 2
                          /\ getTrace(m).status = "failed"
                          /\ getTrace(m).error = "Both synthesis models failed"
                          /\ http[m].status = 500
                          /\ metrics.missionsFailed >= 1

\* the primary call failed and the mission completed with the fallback's result
SynthesisFallbackWitness ==
    \E m \in DOMAIN swarmStatus :
        /\ Len(synthesisAttempts[m]) = 2
        /\ synthesisAttempts[m][2].ok
        /\ getTrace(m).status = "completed"
        /\ getTrace(m).synthesisResult = sanitizeForTrace(synthesisAttempts[m][2].text)

\* executeMission calls by outcome
Completed == {m \in Calls : m \in DOMAIN MEMORY_STORE /\ getTrace(m).status = "completed"}

Failed == {m \in Calls : m \in DOMAIN MEMORY_STORE /\ getTrace(m).status = "failed"}

Rejected == {m \in Calls : pc[m] = "done" /\ http[m].status = 402}

InFlight == {m \in Calls : pc[m] # "done"}

\* C5 as stated: every executeMission call increments missions_total once and
\* then exactly one of missions_success and missions_failed once.
TerminalAccountingEveryCall ==
    InFlight = {} =>
        metrics.missionsTotal = metrics.missionsSuccess + metrics.missionsFailed

\* C5 amended: every executeMission call increments missions_total once; a
\* call rejected by the budget guard increments neither outcome counter; every
\* other call increments exactly one of missions_success and missions_failed
\* once, and only with its Trace stored with the matching terminal status.
TerminalAccounting ==
    /\ metrics.missionsTotal = Cardinality(Calls)
    /\ metrics.missionsSuccess = Cardinality(Completed)
    /\ metrics.missionsFailed = Cardinality(Failed)
    /\ \A m \in Calls :
          pc[m] = "done" <=> m \in Completed \cup Failed \cup Rejected
    /\ \A m \in Rejected : m \notin DOMAIN MEMORY_STORE /\ EstimateExceeds(req[m])
    /\ \A m \in Completed : http[m].status = 200
    /\ \A m \in Failed : http[m].status \in {403, 500}
    /\ InFlight = {} =>
          metrics.missionsTotal = metrics.missionsSuccess + metrics.missionsFailed
                                    + Cardinality(Rejected)

\* one call was rejected by the budget guard, another one ran to its end
TerminalAccountingWitness ==
    /\ InFlight = {}
    /\ Rejected # {}
    /\ \E m \in Failed : http[m].status = 500
    /\ metrics.missionsTotal = 2
    /\ metrics.missionsFailed = 1

\* the status of every Trace the store holds
StoredStatus == [id \in DOMAIN MEMORY_STORE |-> getTrace(id).status]

\* C6: once a Trace is stored with status completed or failed, no later save
\* or update persists it with another status.
TraceStatusFinality ==
    [][\A id \in DOMAIN MEMORY_STORE :
          StoredStatus[id] \in {"completed", "failed"} =>
              /\ id \in DOMAIN MEMORY_STORE'
              /\ StoredStatus'[id] = StoredStatus[id]]_vars

\* C7: the actual cost of a completed mission never exceeds its maxBudget.
HardBudgetLimit ==
    \A m \in Completed : getTrace(m).actualCost <= req[m].maxBudget

\* C8: an input classified as a task by any rule is handled locally, at no
\* cost and without a call to the mission engine.
TaskTierIsLocal ==
    \A m \in DOMAIN req :
        req[m].classification.tier = "task" =>
            /\ ~req[m].engine
            /\ upstreamCalls[m] = 0
            /\ pc[m] = "done"
            /\ http[m] = Response(200, "task", 0, 0)

\* C9 (state part): a SwarmStatus that is synthesizing or completed has every
\* agent completed or failed.
AgentsSettledBeforeSynthesis ==
    \A m \in DOMAIN swarmStatus :
        swarmStatus[m].status \in {"synthesizing", "completed"} =>
            \A i \in 1..agentCount(m) :
                swarmStatus[m].agents[i].status \in {"completed", "failed"}

\* C9 (step part): the status moves along pending, running, synthesizing,
\* completed, or to failed from a status that is not terminal.
SwarmStatusStep ==
    /\ \A m \in DOMAIN swarmStatus' \ DOMAIN swarmStatus :
          swarmStatus'[m].status \in {"pending", "running"}
    /\ \A m \in DOMAIN swarmStatus :
          /\ m \in DOMAIN swarmStatus'
          /\ LET a == swarmStatus[m].status
                 b == swarmStatus'[m].status
             IN  \/ a = b
                 \/ <<a, b>> \in {<<"pending", "running">>,
                                  <<"running", "synthesizing">>,
                                  <<"synthesizing", "completed">>}
                 \/ a \notin {"completed", "failed"} /\ b = "failed"

\* C9: a SwarmStatus only moves forward through pending, running,
\* synthesizing, completed, or to failed from any non-terminal status;
\* synthesizing and completed are reached only after every agent is completed
\* or failed; completed and failed are terminal.
SwarmStatusStateMachine ==
    []AgentsSettledBeforeSynthesis /\ [][SwarmStatusStep]_vars

\* a swarm completed with one agent failed and another completed
SwarmStatusStateMachineWitness ==
    \E m \in DOMAIN swarmStatus :
        /\ swarmStatus[m].status = "completed"
        /\ \E i, j \in 1..agentCount(m) :
              /\ swarmStatus[m].agents[i].status = "failed"
              /\ swarmStatus[m].agents[j].status = "completed"

\* C10: a SwarmStatus that reached completed or failed stays retrievable by
\* getSwarmStatus until the 30 s grace period has elapsed.
RetainedForGracePeriod ==
    \A m \in DOMAIN swarmStatus :
        (swarmStatus[m].status \in {"completed", "failed"} /\ ~graceElapsed[m]) =>
            getSwarmStatus(m) = {swarmStatus[m]}

\* C11: once a cancellation signal has reached an in-flight mission, no
\* further upstream call is issued for it (no retry, no further critique
\* round), and it ends with its Trace stored failed with error "cancelled",
\* every agent task still in flight having error "cancelled" and confidence 0.
Cancellation ==
    \A m \in DOMAIN cancelledAt :
        /\ upstreamCalls[m] = cancelledAt[m]
        /\ pc[m] = "done" =>
              /\ getTrace(m).status = "failed"
              /\ getTrace(m).error = "cancelled"

\* C12: a mission whose agent outputs or synthesis result carry a flag of
\* severity HIGH or CRITICAL does not end completed with that content
\* returned to the caller.
OutputSafety ==
    \A m \in DOMAIN swarmStatus :
        (pc[m] = "done" /\ getTrace(m).status = "completed") =>
            LET flags == getTrace(m).redTeamFlags
            IN  \A k \in 1..Len(flags) :
                    flags[k].source \in {"output", "synthesis"} =>
                        flags[k].severity \notin {"HIGH", "CRITICAL"}

\* every text of a Trace that the model carries is free of the patterns the
\* sanitizer redacts
Redacted(t) ==
    /\ t.mission.pii = {}
    /\ t.synthesisResult.pii = {}
    /\ \A k \in 1..Len(t.iterations) :
          \A j \in 1..Len(t.iterations[k].agentResponses) :
              t.iterations[k].agentResponses[j].response.pii = {}

\* C13: in every Trace the Trace Store holds, in memory or on disk, the
\* mission, the synthesis result and every agent response are outputs of the
\* sanitizer: no SSN, card number, email or phone pattern is persisted.
SanitizedPersistence ==
    /\ \A id \in DOMAIN MEMORY_STORE : Redacted(getTrace(id))
    /\ \A id \in DOMAIN disk : Redacted(disk[id])

\* C16 (state part): every Trace the engine saved is in the store and
\* getTrace returns a Trace equal to it, whether or not a disk write failed;
\* while no write has failed every trace is on disk too; a failed write never
\* surfaces to the caller: the only failure of a launched mission is that of
\* both synthesis models.
StoreKeepsEveryTrace ==
    /\ \A id \in DOMAIN trace :
          /\ id \in DOMAIN MEMORY_STORE
          /\ getTrace(id) = trace[id]
    /\ ~shouldUseMemory => DOMAIN disk = DOMAIN MEMORY_STORE
    /\ \A id \in DOMAIN disk : disk[id].traceId = id
    /\ \A m \in DOMAIN http :
          /\ http[m].status \in {200, 400, 402, 403, 500}
          /\ http[m].status = 500 =>
                /\ Len(synthesisAttempts[m]) = 2
                /\ \A k \in 1..2 : ~synthesisAttempts[m][k].ok

\* C16 (step part): once in memory-only mode the store stays in it and
\* writes no file.
MemoryOnlyIsSticky == shouldUseMemory => (shouldUseMemory' /\ disk' = disk)

PassedIn(key, t, length) ==
    {i \in 1..Len(passed[key]) : t <= passed[key][i] /\ passed[key][i] < t + length}

\* C17: for every key and every interval of length windowMs at most
\* maxRequests requests are let through; a request beyond that is answered
\* 429 with a positive Retry-After.
SlidingWindowLimit ==
    /\ \A key \in Keys, t \in 0..MaxTime :
          Cardinality(PassedIn(key, t, TestConfig.windowMs)) <= TestConfig.maxRequests
    /\ lastResponse.status = 429 => lastResponse.retryAfter >= 1

\* the agents of an array that have no error and a confidence above 0
Qualifying(responses) ==
    {responses[k].agentId : k \in {j \in 1..Len(responses) :
        responses[j].error = "none" /\ responses[j].confidence > 0}}

\* C18: the weights have as keys exactly the agents with no error and
\* confidence > 0, are empty iff no agent qualifies, are each > 0, sum to 1
\* when not empty, and are the same for every order of the responses.
PosteriorWeights ==
    posterior.computed =>
        LET weights == posterior.weights
            ids == DOMAIN weights
        IN  /\ ids = Qualifying(responsesIn)
            /\ (ids = {}) <=> (Qualifying(responsesIn) = {})
            /\ \A id \in ids : weights[id].n > 0 /\ weights[id].d > 0
            /\ ids # {} =>
                  FSum([k \in 1..Len(responsesIn) |->
                          IF k \in ids THEN weights[k] ELSE Frac(0, 1)]) = Frac(1, 1)
            /\ weights = calculatePosteriorWeights(responsesIn)

\* two agents qualify with different latencies, a reordering has been weighed
PosteriorWeightsWitness ==
    /\ posterior.computed
    /\ Len(responsesIn) >= 2
    /\ responsesIn[1].agentId > responsesIn[2].agentId
    /\ Cardinality(DOMAIN posterior.weights) >= 2
    /\ \E a, b \in DOMAIN posterior.weights :
          /\ posterior.weights[a] # posterior.weights[b]
          /\ posterior.weights[a].d > 2

\* C19 (state part): iterations[k].iterationId = k + 1 for every index k
\* (counted from 0) and every consensusScore lies in [0, 1].
IterationsNumbered ==
    \A m \in DOMAIN trace :
        \A k \in 1..Len(trace[m].iterations) :
            /\ trace[m].iterations[k].iterationId = k
            /\ trace[m].iterations[k].consensusScore # NaN
            /\ trace[m].iterations[k].consensusScore >= 0
            /\ trace[m].iterations[k].consensusScore <= 600

\* C19 (step part): iterations only grows by appending.
IterationsAppended ==
    \A m \in DOMAIN trace :
        /\ m \in DOMAIN trace'
        /\ Len(trace'[m].iterations) >= Len(trace[m].iterations)
        /\ SubSeq(trace'[m].iterations, 1, Len(trace[m].iterations))
              = trace[m].iterations

\* C19: in every state of every Trace, iterations only grows by appending,
\* iterationId is the 1-based index and every consensusScore lies in [0, 1],
\* whatever the reviewer returns.
IterationNumbering == []IterationsNumbered /\ [][IterationsAppended]_vars

\* the events published on a handler's channel for its trace id between its
\* subscription and the first call of its handle
PublishedFor(h) ==
    LET log == published[handlers[h].channel][handlers[h].traceId]
    IN  SubSeq(log, handlers[h].subscribedAt + 1,
               IF handlers[h].unsubscribedAt = -1 THEN Len(log)
               ELSE handlers[h].unsubscribedAt)

ExactDelivery ==
    \A h \in 1..Len(handlers) :
        /\ received[h] = PublishedFor(h)
        /\ \A k \in 1..Len(received[h]) :
              received[h][k].traceId = handlers[h].traceId

SecondCallIsIdle ==
    \A h \in 1..Len(handlers) :
        (handlers[h].handleCalls >= 1 /\ handlers'[h].handleCalls > handlers[h].handleCalls)
            => (listeners' = listeners /\ received' = received)

\* C14: every subscriber has received exactly the events published for its
\* trace id between its subscription and the call of its handle, each once
\* and in the order of publication, none of another trace id and none after
\* the call of the handle; a later call of the handle changes nothing.
EventBusDelivery == []ExactDelivery /\ [][SecondCallIsIdle]_vars

\* a launched mission has failed for the one reason it can fail for when
\* nobody subscribes: both synthesis calls failed
FailsAsAlone(m) ==
    (m \in DOMAIN swarmStatus /\ trace[m].status = "failed")
        => /\ Len(synthesisAttempts[m]) = 2
           /\ \A k \in 1..2 : ~synthesisAttempts[m][k].ok

\* a stored consensus score is the one of a reviewer's reply, unless a
\* reviewer call may have failed
ScoredAsAlone(m) ==
    \A k \in 1..Len(trace[m].iterations) :
        \E reply \in world.reviewer :
            reply.ok => trace[m].iterations[k].consensusScore =
                            Clamp01(IF reply.consensusTag # -1
                                    THEN reply.consensusTag ELSE 0)

\* C15: whatever the callbacks of the subscribers do, a publishing mission
\* ends with the Trace status and the result it has when nobody subscribes.
NonBlockingPublication ==
    \A m \in DOMAIN trace : FailsAsAlone(m) /\ ScoredAsAlone(m)

\* what executeMission and its timers hold for one mission
TaskOf(m) ==
    <<pc[m], agentTask[m], agentResponses[m], loop[m], upstreamCalls[m],
      synthesisAttempts[m], evictTimer[m], graceElapsed[m]>>

\* the Trace of a mission, in the engine and in the store, and its
\* SwarmStatus as the status endpoints see it
VisibleOf(m) ==
    <<IF m \in DOMAIN trace THEN {trace[m]} ELSE {},
      IF m \in DOMAIN MEMORY_STORE THEN {getTrace(m)} ELSE {},
      IF m \in DOMAIN disk THEN {disk[m]} ELSE {},
      IF m \in DOMAIN swarmStatus THEN {swarmStatus[m]} ELSE {},
      m \in activeSwarms>>

OthersUntouched ==
    \A m \in Slots, n \in Slots :
        (m # n /\ TaskOf(m)' # TaskOf(m)) => VisibleOf(n)' = VisibleOf(n)

\* the Trace status a mission ends with on its own, from its request and
\* the replies its own upstream calls got
AloneStatus(m) ==
    IF InputBlocked(req[m]) THEN "failed"
    ELSE IF \E k \in 1..Len(synthesisAttempts[m]) : synthesisAttempts[m][k].ok
    THEN "completed"
    ELSE IF Len(synthesisAttempts[m]) = 2 THEN "failed"
    ELSE "running"

EndsAsAlone == \A m \in DOMAIN trace : trace[m].status = AloneStatus(m)

\* C20: under any interleaving of concurrent missions, a step of one mission
\* leaves the Trace and the SwarmStatus of every other mission as they are,
\* and every mission has the Trace status that its own request and its own
\* upstream replies give it.
MissionIndependence == []EndsAsAlone /\ [][OthersUntouched]_vars

\* two missions in flight together, at different points of their run
MissionIndependenceWitness ==
    /\ pc[1] = "fallback"
    /\ pc[2] = "critique"
    /\ trace[1].status = "running"
    /\ Len(trace[2].iterations) = 0
    /\ Cardinality(Finished(swarmStatus[2].agents)) = 2

\* the swarm events published for a mission
SwarmEventsOf(m) == published["swarm"][m]

\* a reviewer call of mission m ends in this step
RoundEnds(m) == pc[m] = "critique" /\ loop'[m] # loop[m]

\* the round that ends is stagnant: not the first, and less than 0.02 above
\* the consensus of the round before
StagnantRound(m) ==
    /\ loop[m].critiqueIteration > 1
    /\ loop'[m].consensusScore # NaN
    /\ loop'[m].consensusScore - loop[m].previousConsensusScore < 12

GuardianCounts ==
    \A m \in Slots :
        RoundEnds(m) =>
            /\ loop'[m].stagnantIterations =
                  IF StagnantRound(m) THEN loop[m].stagnantIterations + 1 ELSE 0
            /\ loop'[m].stagnantIterations >= 2 =>
                  /\ pc'[m] = "synthesis"
                  /\ upstreamCalls'[m] = upstreamCalls[m] + 1
                  /\ Len(SwarmEventsOf(m)') > 0
                  /\ SwarmEventsOf(m)'[Len(SwarmEventsOf(m)')] =
                        [traceId |-> m, type |-> "consensus_update",
                         iteration |-> loop[m].critiqueIteration,
                         guardianFail |-> TRUE]
            /\ loop'[m].stagnantIterations < 2 =>
                  \A k \in (Len(SwarmEventsOf(m)) + 1)..Len(SwarmEventsOf(m)') :
                      ~SwarmEventsOf(m)'[k].guardianFail

\* after the halt no reviewer call is pending; a reviewer that reports 0.50
\* in every round has been called for the rounds 1, 2 and 3
GuardianHalted ==
    \A m \in Slots :
        loop[m].stagnantIterations >= 2 =>
            /\ pc[m] \notin {"fanout", "critique"}
            /\ loop[m].critiqueIteration >= 3
            /\ (/\ loop[m].consensusScore = 300
                /\ \A k \in 1..Len(trace[m].iterations) :
                      trace[m].iterations[k].consensusScore = 300)
                  => loop[m].critiqueIteration = 3

\* C23: a round k > 1 whose consensus is less than 0.02 above that of the
\* round before increments the stagnation counter, any other round resets
\* it; when the counter reaches 2 the engine publishes consensus_update with
\* guardianFail, makes no further reviewer call and goes on to synthesis
\* (after the rounds 1, 2, 3 when the reviewer reports 0.50 every round).
GuardianHalt == []GuardianHalted /\ [][GuardianCounts]_vars

\* the guardian has halted the loop in round 3 of a reviewer at 0.50
GuardianHaltWitness ==
    /\ loop[1].stagnantIterations = 2
    /\ loop[1].critiqueIteration = 3
    /\ loop[1].consensusScore = 300
    /\ pc[1] = "synthesis"
    /\ SwarmEventsOf(1)[Len(SwarmEventsOf(1))].guardianFail

\* C24: every critique round appends exactly one Iteration with the round's
\* responses and consensus, so that once synthesis has started the Trace has
\* as many iterations as rounds were executed and the last one holds the
\* responses that are synthesized.
OneIterationPerRound ==
    \A m \in Slots :
        (pc[m] \in {"synthesis", "fallback"} /\ m \in DOMAIN trace) =>
            /\ Len(trace[m].iterations) = loop[m].critiqueIteration
            /\ trace[m].iterations[loop[m].critiqueIteration].agentResponses
                  = loop[m].currentResponses
            /\ trace[m].iterations[loop[m].critiqueIteration].consensusScore
                  = loop[m].consensusScore

\* the reviewer call of the round that ends has failed: no critique was
\* streamed as a thought
ReviewerFailed(m) ==
    RoundEnds(m) /\ published'["thought"][m] = published["thought"][m]

MeanConfidence(responses) ==
    Sum([k \in 1..Len(responses) |-> responses[k].confidence]) \div Len(responses)

FailedRoundHandled ==
    \A m \in Slots :
        ReviewerFailed(m) =>
            /\ loop'[m].currentResponses = loop[m].currentResponses
            /\ loop'[m].consensusScore = MeanConfidence(loop[m].currentResponses)
            /\ loop'[m].stagnantIterations = loop[m].stagnantIterations + 1
            /\ pc'[m] = IF \/ loop'[m].stagnantIterations >= 2
                           \/ loop'[m].consensusScore >= 552
                           \/ loop[m].critiqueIteration >= 5
                        THEN "synthesis" ELSE "critique"

\* C25: when the reviewer call of a round fails, the responses stay as they
\* are, the round's consensus is the mean of their confidences, the round
\* counts as a stagnant one whatever its number and the consensus before,
\* and the loop goes on unless this is the second stagnant round in a row.
ReviewerFailureHandling == [][FailedRoundHandled]_vars

\* C26: while the reviewer call of round k+1 is pending, the Trace written
\* to the store holds the iterations 1..k, in the file as well as in what
\* getTrace returns.
PersistedBeforeNextRound ==
    \A m \in Slots :
        (pc[m] = "critique" /\ m \in DOMAIN MEMORY_STORE) =>
            /\ Len(getTrace(m).iterations) = loop[m].critiqueIteration - 1
            /\ m \in DOMAIN disk =>
                  Len(disk[m].iterations) = loop[m].critiqueIteration - 1

\* the reviewer calls made for a mission: a critique_start is published at
\* the head of every runCritiqueRound
ReviewerCalls(m) ==
    Cardinality({k \in 1..Len(SwarmEventsOf(m)) :
                    SwarmEventsOf(m)[k].type = "critique_start"})

LoopBounded ==
    \A m \in Slots :
        /\ ReviewerCalls(m) <= 5
        /\ pc[m] = "critique" =>
              (loop[m].consensusScore = NaN \/ loop[m].consensusScore < 552)

\* a round starts in the step that applies the result of the round before,
\* and none starts after a round at 0.92 or more
RoundsInTurn ==
    \A m \in Slots :
        /\ ReviewerCalls(m)' <= ReviewerCalls(m) + 1
        /\ (ReviewerCalls(m)' = ReviewerCalls(m) + 1 /\ ReviewerCalls(m) > 0) =>
              /\ pc[m] = "critique"
              /\ loop[m].critiqueIteration = ReviewerCalls(m)
              /\ Len(trace'[m].iterations) = ReviewerCalls(m)
              /\ trace'[m].iterations[ReviewerCalls(m)].consensusScore < 552
        /\ (RoundEnds(m) /\ loop'[m].consensusScore # NaN
              /\ loop'[m].consensusScore >= 552) =>
              (pc'[m] = "synthesis" /\ ReviewerCalls(m)' = ReviewerCalls(m))

LoopEnds == \A m \in Slots : (pc[m] = "critique") ~> (pc[m] = "synthesis")

\* C27: whatever the reviewer answers, at most 5 reviewer calls are made,
\* each after the result of the one before is applied, none after a round
\* whose consensus is 0.92 or more, and the loop is left for synthesis.
CritiqueLoopBound == []LoopBounded /\ [][RoundsInTurn]_vars /\ LoopEnds

\* the fifth round has ended below the threshold and synthesis has started
CritiqueLoopBoundWitness ==
    /\ ReviewerCalls(1) = 5
    /\ pc[1] = "synthesis"
    /\ loop[1].consensusScore < 552
    /\ Len(trace[1].iterations) = 5

\* the call has met only the outcomes of the retry rule: success, 429, 5xx
\* and transport errors
RetryableOnly ==
    \A k \in 1..Len(client.attempts) :
        client.attempts[k] \in {"ok", "429", "5xx", "5xx Rate limit", "transport"}

LastOutcome == client.attempts[Len(client.attempts)]

\* C28: one call makes at most maxRetries + 1 attempts, waits
\* min(baseBackoff * 2^attempt, maxBackoff) before each retry, and ends with
\* the first success or, when the retries are exhausted, with the rate-limit
\* error after a last 429 and the upstream failure otherwise; without
\* credential it fails with no attempt and no wait.
BoundedRetry ==
    RetryableOnly =>
        /\ Len(client.attempts) <= 5 + 1
        /\ \A k \in 1..Len(client.waits) :
              client.waits[k] = Min(1000 * Pow2(k - 1), 32000)
        /\ \A k \in 1..(Len(client.attempts) - 1) : client.attempts[k] # "ok"
        /\ client.state \in {"idle", "fetching"} =>
              Len(client.waits) = Len(client.attempts)
        /\ client.state = "sleeping" =>
              Len(client.waits) = Len(client.attempts)
        /\ client.state = "returned" =>
              /\ LastOutcome = "ok"
              /\ Len(client.waits) = Len(client.attempts) - 1
        /\ (client.state = "thrown" /\ client.attempts = << >>) =>
              /\ client.error = "OPENROUTER_API_KEY is not set"
              /\ client.waits = << >>
        /\ (client.state = "thrown" /\ client.attempts # << >>) =>
              /\ Len(client.attempts) = 5 + 1
              /\ Len(client.waits) = 5
              /\ LastOutcome # "ok"
              /\ (client.error = "Rate limit exceeded after max retries")
                    <=> (LastOutcome = "429")

\* C29: an attempt answered with a 4xx other than 429 is the last one: no
\* wait and no attempt follows it, and the call has ended with its error.
NoRetryOnClientError ==
    \A k \in 1..Len(client.attempts) :
        client.attempts[k] = "4xx" =>
            /\ k = Len(client.attempts)
            /\ Len(client.waits) = k - 1
            /\ client.state = "thrown"

-----------------------------------------------------------------------------
\* a string of the form 8-4-4-4-12 in hexadecimal digits
IsUuid(param) == param.groups = <<8, 4, 4, 4, 12>> /\ param.hex

\* the trace id is that of a trace in memory or on disk, or of an active swarm
Known(id) == id \in (DOMAIN MEMORY_STORE) \cup (DOMAIN disk) \cup activeSwarms

\* what a GET of a trace or of a status answers, given the state it found
TraceIdValidated ==
    lookup'.served = lookup.served + 1 =>
        LET param == lookup'.param
        IN  /\ ~IsUuid(param) =>
                /\ lookup'.status = 400
                /\ lookup'.consulted = {}
                /\ UNCHANGED <<MEMORY_STORE, disk, shouldUseMemory, activeSwarms>>
            /\ lookup'.status = 404 => IsUuid(param) /\ ~Known(param.id)
            /\ lookup'.status \in {200, 400, 404}

-----------------------------------------------------------------------------
\* the handlers registered at the event bus that were created for connection c
RegisteredFor(c) ==
    {h \in 1..Len(handlers) :
        /\ handlers[h].conn = c
        /\ \E k \in DOMAIN listeners[handlers[h].channel][handlers[h].traceId] :
              listeners[handlers[h].channel][handlers[h].traceId][k] = h}

\* the polling timers of connection c that are still set
TimersOf(c) == {k \in DOMAIN sockets[c].intervals : sockets[c].intervals[k].active}

\* C21: for any sequence of subscribe, stream_thoughts and stream_events
\* messages received on a connection, after that connection closes no event
\* bus handler and no status-polling timer created for it remains registered,
\* and no further message is sent on it
SubscriptionRelease ==
    \A c \in Conns :
        sockets[c].readyState = "CLOSED" =>
            /\ RegisteredFor(c) = {}
            /\ TimersOf(c) = {}
            /\ ~outbox[c].sendAfterClose

\* a closed connection that had a handler of each channel or a timer, on which
\* something was sent, while the mission publishes on
SubscriptionReleaseWitness ==
    \E c \in Conns :
        /\ sockets[c].readyState = "CLOSED"
        /\ sockets[c].messages = MaxMessages
        /\ sockets[c].intervals # << >>
        /\ \E h \in 1..Len(handlers) :
              /\ handlers[h].conn = c
              /\ received[h] # << >>
              /\ Len(published[handlers[h].channel][handlers[h].traceId])
                    > Len(received[h])
        /\ outbox[c].sent

-----------------------------------------------------------------------------
ProgressInRange ==
    \A m \in DOMAIN swarmStatus :
        swarmStatus[m].progress >= 0 /\ swarmStatus[m].progress <= 100

ProgressNeverDecreases ==
    \A m \in (DOMAIN swarmStatus) \cap (DOMAIN swarmStatus') :
        swarmStatus'[m].progress >= swarmStatus[m].progress

\* C30: over the whole lifetime of a mission, from fan-out through the
\* critique rounds to synthesis and completion and for every order of agent
\* completions, SwarmStatus.progress stays within [0,100] and never decreases
\* from one observed state to the next
ProgressMonotonicity == []ProgressInRange /\ [][ProgressNeverDecreases]_vars

====
